---- MODULE Spec2Model ----
(***************************************************************************)
(* Client-side streaming runtime of rust-daq.                              *)
(*                                                                         *)
(*   clients/python/src/rust_daq/streaming.py                              *)
(*       FrameStream, ParameterSubscription, DeviceStateStream: async      *)
(*       context managers and iterators over an upstream stream opened     *)
(*       through AsyncClient.                                              *)
(*   clients/python/daq_client.py                                          *)
(*       DaqClient.stream_status / stream_measurements: generators over    *)
(*       a gRPC server stream.                                             *)
(*                                                                         *)
(* A run constructs one or two of the wrapper objects on one client.       *)
(* __anext__ has one suspension point (the await on the upstream), so it   *)
(* is modelled by two steps: the call up to the await and the resumption   *)
(* with what the upstream answered.                                        *)
(***************************************************************************)
EXTENDS Integers, Sequences, FiniteSets, TLC

\* Events one upstream stream can produce before it can only end or fail.
MaxEvents == 2
\* Events one gRPC server stream of DaqClient can produce.
MaxTicks == 2
\* Scripts the daemon accepts and executions it starts in one run.
MaxScripts == 1
MaxExecs == 2
\* Nesting depth of the metadata passed to DataPoint.
MaxDepth == 2
\* Largest width and height of the frames that are decoded.
MaxDim == 2
\* Decimal orders (digits before the point) of the least number that rounds
\* to an infinity, 1.797...e308, and of the largest that rounds to zero,
\* 2.470...e-324.
MaxExp10 == 309
MinExp10 == -323

\* Python's None, and a present optional value.
None == <<>>
Some(x) == <<x>>

\* The three wrapper objects.
F == "FrameStream"
P == "ParameterSubscription"
D == "DeviceStateStream"
Subs == {F, P, D}

\* The two generator methods of DaqClient.
GS == "stream_status"
GM == "stream_measurements"
Gens == {GS, GM}

\* Constructor arguments the runs are drawn from.
MaxFramesArgs == {None, Some(0), Some(1), Some(2)}
FrameDevice == "camera_0"
ParamDevice == "laser"
ParamNames == <<"wavelength_nm">>
StateDevices == <<"motor_x">>
DeviceIdArgs == {None, Some(ParamDevice)}
ParameterNamesArgs == {None, Some(ParamNames)}
MaxRateArgs == {1, 10}
IncludeSnapshotArgs == BOOLEAN
Instrument == "power_meter"

VARIABLES
    objs,         \* the wrapper objects this run constructed
    max_frames,   \* FrameStream._max_frames: None or Some(n)
    on_frame,     \* FrameStream._on_frame is set
    on_change,    \* ParameterSubscription._on_change is set
    device_id,    \* ParameterSubscription._device_id: None or Some(id)
    parameter_names,  \* ParameterSubscription._parameter_names
    max_rate_hz,  \* DeviceStateStream._max_rate_hz
    include_snapshot, \* DeviceStateStream._include_snapshot
    active,       \* _active of each wrapper
    count,        \* _frame_count / _change_count / _update_count
    iterator,     \* _iterator of each wrapper: None or Some(owner of the stream)
    awaiting,     \* stream the wrapper's __anext__ is suspended on, 0 if none
    tasks,        \* how many consumer tasks share each wrapper
    up,           \* the upstream stream each wrapper opened last, or None
    prior,        \* the stream a read still pending was made on, once
                  \* __aenter__ opened another one, or None
    ret,          \* outcome of the latest call on each wrapper
    trace,        \* callback invocations and returned events since __aenter__
    phase,        \* lifecycle of each wrapper: new, entered, closed,
                  \* closed_again, reentered, unopened, and closed_new,
                  \* closed_new_again when closed before any __aenter__
    calls,        \* calls on the client and the iterator made by the latest
                  \* method call on each wrapper
    gen,          \* the generator each DaqClient stream method returned last
    seen,         \* what the consumer of each generator observed last
    channel,      \* the gRPC channel of the DaqClient: open or closed
    received,     \* the message the loop of stream_measurements received last,
                  \* or None
    conv,         \* outcome of the latest old_as_float / new_as_float call
    self_frame,   \* the Frame to_numpy is called on, or None
    numpy,        \* "import numpy" succeeds in this interpreter
    array,        \* outcome of the latest to_numpy call
    scripts,      \* daemon: the scripts uploaded, in order
    execs,        \* daemon: the executions started, in order
    clock,        \* daemon: its clock, in ns
    reply,        \* outcome of the latest control call on DaqClient
    main,         \* examples/basic_usage.py: where main() is, how long it waited
    made          \* outcome of the latest DataPoint(...) call

config == <<objs, max_frames, on_frame, on_change, device_id, parameter_names,
           max_rate_hz, include_snapshot, tasks>>
wrapVars == <<active, count, iterator, awaiting, up, prior, ret, trace, phase,
              calls>>
genVars == <<gen, seen, channel, received>>
decodeVars == <<self_frame, numpy, array>>
pointVars == <<made>>
pureVars == <<conv, decodeVars, pointVars>>
ctlVars == <<scripts, execs, clock, reply>>
others == <<genVars, pureVars, ctlVars, main>>
vars == <<config, wrapVars, others>>

----------------------------------------------------------------------------
(* Upstream: AsyncClient.stream_frames / stream_parameter_changes /        *)
(* stream_device_state.  Each call opens one server-side stream.           *)

\* A newly opened upstream stream.
OpenStream(method, owner, args) ==
    [method |-> method, owner |-> owner, args |-> args,
     pos |-> 0, status |-> "open"]

stream_frames(owner, dev, pixels) ==
    OpenStream("stream_frames", owner,
               [device_id |-> dev, include_pixel_data |-> pixels])

stream_parameter_changes(owner, dev, names) ==
    OpenStream("stream_parameter_changes", owner,
               [device_id |-> dev, parameter_names |-> names])

stream_device_state(owner, devs, rate, snapshot) ==
    OpenStream("stream_device_state", owner,
               [device_ids |-> devs, max_rate_hz |-> rate,
                include_snapshot |-> snapshot])

\* What awaiting the next item of stream st can result in: an event, a
\* normal end (StopAsyncIteration) or a failure (any other exception).
\* A stream that ended stays ended.  The wrappers put no condition on what
\* an iterator does after it raised a failure, so it may raise again, end,
\* or deliver its next event.
UpstreamOutcomes(st) ==
    IF st.status = "ended"
    THEN {"end"}
    ELSE (IF st.pos < MaxEvents THEN {"event"} ELSE {}) \cup {"end", "fail"}

\* The stream after answering with the outcome.
UpstreamStep(st, outcome) ==
    CASE outcome = "event" -> [st EXCEPT !.pos = st.pos + 1]
      [] outcome = "end" ->
             [st EXCEPT !.status = IF st.status = "open" THEN "ended"
                                    ELSE st.status]
      [] OTHER ->
             [st EXCEPT !.status = IF st.status = "open" THEN "failed"
                                    ELSE st.status]

\* The raw dicts the n-th event of a stream carries.
RawFrame(st, n) ==
    [device_id |-> st.args.device_id, frame_number |-> n,
     width |-> 2, height |-> 1, timestamp_ns |-> n,
     pixel_data |-> IF st.args.include_pixel_data THEN Some(<<n, n>>) ELSE None,
     pixel_format |-> "u8"]

\* The decimal digits of a natural number, as characters.
Digit(d) == <<"0", "1", "2", "3", "4", "5", "6", "7", "8", "9">>[d + 1]

RECURSIVE Chars(_)
Chars(n) == IF n < 10 THEN <<Digit(n)>>
            ELSE Append(Chars(n \div 10), Digit(n % 10))

\* The parameter changes the daemon has to offer as the n-th event of a
\* stream, before filtering.  Values are strings, written as sequences of
\* characters; those of "mode" are not numbers.
ChangeFeed(n) ==
    << [device_id |-> "motor_x", name |-> "position",
        old_value |-> Chars(n - 1), new_value |-> Chars(n) \o <<".", "5">>,
        units |-> "mm"],
       [device_id |-> "laser", name |-> "mode",
        old_value |-> <<"m">> \o Chars(n - 1), new_value |-> <<"m">> \o Chars(n),
        units |-> ""],
       [device_id |-> "laser", name |-> "wavelength_nm",
        old_value |-> Chars(800 + n), new_value |-> <<"8", "e">> \o Chars(n),
        units |-> "nm"] >>

\* The filter of StreamParameterChanges: an optional device id and an
\* optional allow-list of names, both of which an event has to satisfy.
Matches(args, e) ==
    /\ (args.device_id = None \/ e.device_id = args.device_id[1])
    /\ (args.parameter_names = None
           \/ \E i \in 1..Len(args.parameter_names[1]) :
                  e.name = args.parameter_names[1][i])

Matching(args, n) ==
    LET Test(e) == Matches(args, e) IN SelectSeq(ChangeFeed(n), Test)

RawChange(st, n) ==
    LET m == Matching(st.args, n) IN m[((n - 1) % Len(m)) + 1]

RawUpdate(st, n) ==
    [device_id |-> "motor_x", fields |-> n,
     is_snapshot |-> (n = 1 /\ st.args.include_snapshot)]

----------------------------------------------------------------------------
(* Values built from the raw dicts.                                        *)

Frame(raw) ==
    [device_id |-> raw.device_id, frame_number |-> raw.frame_number,
     width |-> raw.width, height |-> raw.height,
     timestamp_ns |-> raw.timestamp_ns, pixel_data |-> raw.pixel_data,
     pixel_format |-> raw.pixel_format]

ParameterChange(raw) ==
    [device_id |-> raw.device_id, name |-> raw.name,
     old_value |-> raw.old_value, new_value |-> raw.new_value,
     units |-> raw.units]

\* Python truthiness of an Optional[int].
Truthy(m) == m # None /\ m[1] # 0

\* Python objects that occur in the metadata of a DataPoint: the items of a
\* dict are its <<key, value>> pairs, those of a list its values under the
\* key "".  The value of a None, bool, int, float or str is its repr.
PyObject(type, value, items) ==
    [type |-> type, value |-> value, items |-> items]
PyNone == PyObject("NoneType", "None", <<>>)
PyBool(b) == PyObject("bool", IF b THEN "True" ELSE "False", <<>>)
PyInt(n) == PyObject("int", ToString(n), <<>>)
PyFloat(repr) == PyObject("float", repr, <<>>)
PyStr(text) == PyObject("str", text, <<>>)
PySet == PyObject("set", "", <<>>)
PyInstrument == PyObject("MaiTai", "", <<>>)
PyList(items) == PyObject("list", "", items)
PyDict(items) == PyObject("dict", "", items)

\* Outcome of a DataPoint(...) call: what it returned or raised, the
\* arguments as they were when it was called, and the object it created.
Made(out, timestamp, given, obj) ==
    [out |-> out, timestamp |-> timestamp, given |-> given, obj |-> obj]
NoDataPoint == Made("none", None, PyNone, None)

\* Outcome of a call on a wrapper: the method, what it returned or raised,
\* the event it returned, and the branch of the method that decided it.
Ret(op, out, val, why) == [op |-> op, out |-> out, val |-> val, why |-> why]
NoCall == Ret("none", "none", None, "none")

\* A call a wrapper method makes on the client, and the pull it makes on
\* its iterator.
ClientCall(method, args) == <<method, args>>
IteratorCall == <<"__anext__", None>>

\* Outcome of an as_float call: the method, and what float() gave.
Conversion(op, result) == [op |-> op, out |-> result.out, val |-> result.val]
NoConversion == [op |-> "none", out |-> "none", val |-> None]

\* A generator object: its position in the method body (created: not yet
\* started, suspended: at the yield, done: returned), the items the server
\* stream sent and the state of the server stream.
Generator(state, pos, rpc) == [state |-> state, pos |-> pos, rpc |-> rpc]
NoGenerator == Generator("none", 0, "none")

\* What next() on a generator gave its consumer, why the stream stopped
\* (ended by the server or failed), and what was printed to stdout.
Seen(out, val, cause, stdout) ==
    [out |-> out, val |-> val, cause |-> cause, stdout |-> stdout]


----------------------------------------------------------------------------
\* The state after the wrappers of the run were constructed: n of the three
\* on one client.  Arguments of a wrapper that is not constructed keep their
\* defaults.
ConstructedFor(n, consumers) ==
    /\ objs \in {o \in SUBSET Subs : Cardinality(o) = n}
    /\ tasks = consumers
    /\ max_frames \in IF F \in objs THEN MaxFramesArgs ELSE {None}
    /\ on_frame \in IF F \in objs THEN BOOLEAN ELSE {FALSE}
    /\ on_change \in IF P \in objs THEN BOOLEAN ELSE {FALSE}
    /\ device_id \in IF P \in objs THEN DeviceIdArgs ELSE {None}
    /\ parameter_names \in IF P \in objs THEN ParameterNamesArgs ELSE {None}
    /\ max_rate_hz \in IF D \in objs THEN MaxRateArgs ELSE {10}
    /\ include_snapshot \in IF D \in objs THEN IncludeSnapshotArgs ELSE {TRUE}
    /\ active = [s \in Subs |-> FALSE]
    /\ count = [s \in Subs |-> 0]
    /\ iterator = [s \in Subs |-> None]
    /\ awaiting = [s \in Subs |-> 0]
    /\ up = [s \in Subs |-> None]
    /\ prior = [s \in Subs |-> None]
    /\ ret = [s \in Subs |-> NoCall]
    /\ trace = [s \in Subs |-> <<>>]
    /\ phase = [s \in Subs |-> "new"]
    /\ calls = [s \in Subs |-> <<>>]
    /\ gen = [g \in Gens |-> NoGenerator]
    /\ seen = [g \in Gens |-> Seen("none", None, "none", None)]
    /\ channel = "open"
    /\ received = None
    /\ made = NoDataPoint
    /\ conv = NoConversion

\* The wrappers of a run in which one consumer task uses each wrapper.
Constructed(n) == ConstructedFor(n, 1)

\* The phases of a wrapper on which __aenter__ was never called: as
\* constructed, and after one or more __aexit__ calls.
Unentered == {"new", "closed_new", "closed_new_again"}

\* The lifecycle phase after __aenter__: entered by the first __aenter__
\* call on the object, or entered again.
Entered(ph) == IF ph \in Unentered THEN "entered" ELSE "reentered"

\* The lifecycle phase after one more __aexit__.
Closed(ph) ==
    CASE ph = "new" -> "closed_new"
      [] ph \in {"closed_new", "closed_new_again"} -> "closed_new_again"
      [] ph \in {"closed", "closed_again"} -> "closed_again"
      [] OTHER -> "closed"

\* Reads that are pending on a stream __aenter__ has replaced since.  With
\* two consumer tasks at most one read is pending when __aenter__ runs.
Stale(s) == IF prior[s] = None THEN 0 ELSE 1

\* The stream a pending read keeps once __aenter__ assigns _iterator anew:
\* the awaitable was made on the iterator of that time.
Superseded(s) ==
    IF prior[s] = None /\ awaiting[s] > 0 THEN up[s] ELSE prior[s]

\* The streams a pending read of wrapper s can be answered by: the one it
\* was made on.
PendingOn(s) ==
    {src \in {"prior", "current"} :
        IF src = "prior" THEN prior[s] # None ELSE awaiting[s] > Stale(s)}
StreamOf(s, src) == IF src = "prior" THEN prior[s][1] ELSE up[s][1]

\* The stream that answered a read moves on; a replaced stream is dropped
\* with the read that held it.
Answered(s, src, st2) ==
    IF src = "prior"
    THEN /\ prior' = [prior EXCEPT ![s] = None]
         /\ UNCHANGED up
    ELSE /\ up' = [up EXCEPT ![s] = Some(st2)]
         /\ UNCHANGED prior

----------------------------------------------------------------------------
(* FrameStream *)

\* FrameStream.__aenter__ that opens a stream only the first time and goes
\* on with the stream it has on a later entry.
FrameStream_aenter_resumes ==
    /\ F \in objs
    /\ awaiting[F] < tasks
    /\ active' = [active EXCEPT ![F] = TRUE]
    /\ count' = [count EXCEPT ![F] = 0]
    /\ up' = [up EXCEPT ![F] = IF up[F] = None
                               THEN Some(stream_frames(F, FrameDevice, TRUE))
                               ELSE up[F]]
    /\ UNCHANGED prior
    /\ iterator' = [iterator EXCEPT ![F] = Some(F)]
    /\ ret' = [ret EXCEPT ![F] = Ret("aenter", "self", None, "none")]
    /\ trace' = [trace EXCEPT ![F] = <<>>]
    /\ phase' = [phase EXCEPT ![F] = Entered(phase[F])]
    /\ calls' = [calls EXCEPT ![F] =
           IF up[F] = None
           THEN <<ClientCall("stream_frames", up'[F][1].args)>> ELSE <<>>]
    /\ UNCHANGED <<config, awaiting, others>>

\* FrameStream.__aenter__ that reads the first frame ahead of the consumer.
FrameStream_aenter_prefetches ==
    /\ F \in objs
    /\ awaiting[F] < tasks
    /\ active' = [active EXCEPT ![F] = TRUE]
    /\ count' = [count EXCEPT ![F] = 0]
    /\ up' = [up EXCEPT ![F] =
           Some(UpstreamStep(stream_frames(F, FrameDevice, TRUE), "event"))]
    /\ prior' = [prior EXCEPT ![F] = Superseded(F)]
    /\ iterator' = [iterator EXCEPT ![F] = Some(F)]
    /\ ret' = [ret EXCEPT ![F] = Ret("aenter", "self", None, "none")]
    /\ trace' = [trace EXCEPT ![F] = <<>>]
    /\ phase' = [phase EXCEPT ![F] = Entered(phase[F])]
    /\ calls' = [calls EXCEPT ![F] = <<ClientCall("stream_frames", up'[F][1].args)>>]
    /\ UNCHANGED <<config, awaiting, others>>

FrameStream_aenter ==
    /\ F \in objs
    /\ awaiting[F] < tasks
    /\ active' = [active EXCEPT ![F] = TRUE]
    /\ count' = [count EXCEPT ![F] = 0]
    /\ up' = [up EXCEPT ![F] = Some(stream_frames(F, FrameDevice, TRUE))]
    /\ prior' = [prior EXCEPT ![F] = Superseded(F)]
    /\ iterator' = [iterator EXCEPT ![F] = Some(F)]
    /\ ret' = [ret EXCEPT ![F] = Ret("aenter", "self", None, "none")]
    /\ trace' = [trace EXCEPT ![F] = <<>>]
    /\ phase' = [phase EXCEPT ![F] = Entered(phase[F])]
    /\ calls' = [calls EXCEPT ![F] = <<ClientCall("stream_frames", up'[F][1].args)>>]
    /\ UNCHANGED <<config, awaiting, others>>

\* FrameStream.__aexit__ that leaves _active and _iterator as they are.
FrameStream_aexit_keeps_stream(exc) ==
    /\ F \in objs
    /\ awaiting[F] < tasks
    /\ ret' = [ret EXCEPT ![F] = Ret("aexit", "False", None, "none")]
    /\ phase' = [phase EXCEPT ![F] = Closed(phase[F])]
    /\ calls' = [calls EXCEPT ![F] = <<>>]
    /\ UNCHANGED <<config, active, iterator, count, awaiting, up, prior, trace,
                   others>>

\* exc is the exception the scope is left with, as passed in exc_type.
FrameStream_aexit(exc) ==
    /\ F \in objs
    /\ awaiting[F] < tasks
    /\ active' = [active EXCEPT ![F] = FALSE]
    /\ iterator' = [iterator EXCEPT ![F] = None]
    /\ ret' = [ret EXCEPT ![F] = Ret("aexit", "False", None, "none")]
    /\ phase' = [phase EXCEPT ![F] = Closed(phase[F])]
    /\ calls' = [calls EXCEPT ![F] = <<>>]
    /\ UNCHANGED <<config, count, awaiting, up, prior, trace, others>>

\* FrameStream.__anext__ with the cap compared by > instead of >=.
FrameStream_anext_late_cap ==
    /\ F \in objs
    /\ awaiting[F] < tasks
    /\ IF ~active[F] \/ iterator[F] = None
       THEN /\ ret' = [ret EXCEPT ![F] =
                          Ret("anext", "StopAsyncIteration", None,
                              "inactive")]
            /\ UNCHANGED awaiting
       ELSE IF Truthy(max_frames) /\ count[F] > max_frames[1]
       THEN /\ ret' = [ret EXCEPT ![F] =
                          Ret("anext", "StopAsyncIteration", None,
                              "cap")]
            /\ UNCHANGED awaiting
       ELSE /\ ret' = [ret EXCEPT ![F] = Ret("anext", "pending", None, "none")]
            /\ awaiting' = [awaiting EXCEPT ![F] = awaiting[F] + 1]
    /\ calls' = [calls EXCEPT ![F] =
           IF ret'[F].out = "pending" THEN <<IteratorCall>> ELSE <<>>]
    /\ UNCHANGED <<config, active, count, iterator, up, prior, trace,
                   phase, others>>

\* __anext__ up to the await on the upstream iterator.
FrameStream_anext ==
    /\ F \in objs
    /\ awaiting[F] < tasks
    /\ IF ~active[F] \/ iterator[F] = None
       THEN /\ ret' = [ret EXCEPT ![F] =
                          Ret("anext", "StopAsyncIteration", None,
                              "inactive")]
            /\ UNCHANGED awaiting
       ELSE IF Truthy(max_frames) /\ count[F] >= max_frames[1]
       THEN /\ ret' = [ret EXCEPT ![F] =
                          Ret("anext", "StopAsyncIteration", None,
                              "cap")]
            /\ UNCHANGED awaiting
       ELSE /\ ret' = [ret EXCEPT ![F] = Ret("anext", "pending", None, "none")]
            /\ awaiting' = [awaiting EXCEPT ![F] = awaiting[F] + 1]
    /\ calls' = [calls EXCEPT ![F] =
           IF ret'[F].out = "pending" THEN <<IteratorCall>> ELSE <<>>]
    /\ UNCHANGED <<config, active, count, iterator, up, prior, trace,
                   phase, others>>

\* FrameStream.__anext__ that calls on_frame only after the frame was handed
\* to the consumer.
FrameStream_anext_resume_late_callback(outcome, cb) ==
    /\ awaiting[F] > 0
    /\ \E src \in PendingOn(F) :
       LET st == StreamOf(F, src)
           frame == Frame(RawFrame(st, st.pos + 1))
       IN  /\ outcome \in UpstreamOutcomes(st)
           /\ Answered(F, src, UpstreamStep(st, outcome))
           /\ CASE outcome = "end" ->
                     /\ cb = "ok"
                     /\ active' = [active EXCEPT ![F] = FALSE]
                     /\ ret' = [ret EXCEPT ![F] =
                                   Ret("anext", "StopAsyncIteration", None,
                                       "end")]
                     /\ UNCHANGED <<count, trace>>
                [] outcome = "fail" ->
                     /\ cb = "ok"
                     /\ ret' = [ret EXCEPT ![F] = Ret("anext", "error", None, "fail")]
                     /\ UNCHANGED <<active, count, trace>>
                [] OTHER ->
                     /\ cb = "ok"
                     /\ count' = [count EXCEPT ![F] = count[F] + 1]
                     /\ trace' = [trace EXCEPT ![F] =
                            IF on_frame
                            THEN trace[F] \o <<(<<"ret", frame>>),
                                               (<<"cb", frame>>)>>
                            ELSE Append(trace[F], <<"ret", frame>>)]
                     /\ ret' = [ret EXCEPT ![F] =
                                   Ret("anext", "event", Some(frame), "event")]
                     /\ UNCHANGED active
    /\ awaiting' = [awaiting EXCEPT ![F] = awaiting[F] - 1]
    /\ UNCHANGED <<config, iterator, phase, calls, others>>

\* FrameStream.__anext__ that hands over the frame it was given before
\* instead of the one it just received.
FrameStream_anext_resume_repeats(outcome, cb) ==
    /\ awaiting[F] > 0
    /\ \E src \in PendingOn(F) :
       LET st == StreamOf(F, src)
           frame == Frame(RawFrame(st, IF st.pos = 0 THEN 1 ELSE st.pos))
       IN  /\ outcome \in UpstreamOutcomes(st)
           /\ Answered(F, src, UpstreamStep(st, outcome))
           /\ CASE outcome = "end" ->
                     /\ cb = "ok"
                     /\ active' = [active EXCEPT ![F] = FALSE]
                     /\ ret' = [ret EXCEPT ![F] =
                                   Ret("anext", "StopAsyncIteration", None,
                                       "end")]
                     /\ UNCHANGED <<count, trace>>
                [] outcome = "fail" ->
                     /\ cb = "ok"
                     /\ ret' = [ret EXCEPT ![F] = Ret("anext", "error", None, "fail")]
                     /\ UNCHANGED <<active, count, trace>>
                [] OTHER ->
                     /\ count' = [count EXCEPT ![F] = count[F] + 1]
                     /\ IF on_frame
                        THEN IF cb = "raise"
                             THEN /\ trace' = [trace EXCEPT ![F] =
                                         Append(trace[F], <<"cb", frame>>)]
                                  /\ ret' = [ret EXCEPT ![F] =
                                         Ret("anext", "callback_error", None, "callback")]
                             ELSE /\ trace' = [trace EXCEPT ![F] =
                                         trace[F] \o <<(<<"cb", frame>>),
                                                       (<<"ret", frame>>)>>]
                                  /\ ret' = [ret EXCEPT ![F] =
                                         Ret("anext", "event", Some(frame), "event")]
                        ELSE /\ cb = "ok"
                             /\ trace' = [trace EXCEPT ![F] =
                                         Append(trace[F], <<"ret", frame>>)]
                             /\ ret' = [ret EXCEPT ![F] =
                                         Ret("anext", "event", Some(frame), "event")]
                     /\ UNCHANGED active
    /\ awaiting' = [awaiting EXCEPT ![F] = awaiting[F] - 1]
    /\ UNCHANGED <<config, iterator, phase, calls, others>>

\* FrameStream.__anext__ that counts a frame only once on_frame returned.
FrameStream_anext_resume_counts_returned(outcome, cb) ==
    /\ awaiting[F] > 0
    /\ \E src \in PendingOn(F) :
       LET st == StreamOf(F, src)
           frame == Frame(RawFrame(st, st.pos + 1))
       IN  /\ outcome \in UpstreamOutcomes(st)
           /\ Answered(F, src, UpstreamStep(st, outcome))
           /\ CASE outcome = "end" ->
                     /\ cb = "ok"
                     /\ active' = [active EXCEPT ![F] = FALSE]
                     /\ ret' = [ret EXCEPT ![F] =
                                   Ret("anext", "StopAsyncIteration", None,
                                       "end")]
                     /\ UNCHANGED <<count, trace>>
                [] outcome = "fail" ->
                     /\ cb = "ok"
                     /\ ret' = [ret EXCEPT ![F] = Ret("anext", "error", None, "fail")]
                     /\ UNCHANGED <<active, count, trace>>
                [] OTHER ->
                     /\ IF on_frame
                        THEN IF cb = "raise"
                             THEN /\ trace' = [trace EXCEPT ![F] =
                                         Append(trace[F], <<"cb", frame>>)]
                                  /\ ret' = [ret EXCEPT ![F] =
                                         Ret("anext", "callback_error", None, "callback")]
                                  /\ UNCHANGED count
                             ELSE /\ trace' = [trace EXCEPT ![F] =
                                         trace[F] \o <<(<<"cb", frame>>),
                                                       (<<"ret", frame>>)>>]
                                  /\ ret' = [ret EXCEPT ![F] =
                                         Ret("anext", "event", Some(frame), "event")]
                                  /\ count' = [count EXCEPT ![F] = count[F] + 1]
                        ELSE /\ cb = "ok"
                             /\ trace' = [trace EXCEPT ![F] =
                                         Append(trace[F], <<"ret", frame>>)]
                             /\ ret' = [ret EXCEPT ![F] =
                                         Ret("anext", "event", Some(frame), "event")]
                             /\ count' = [count EXCEPT ![F] = count[F] + 1]
                     /\ UNCHANGED active
    /\ awaiting' = [awaiting EXCEPT ![F] = awaiting[F] - 1]
    /\ UNCHANGED <<config, iterator, phase, calls, others>>

\* __anext__ from the await on: outcome is the upstream's answer, cb what
\* the on_frame callback does if it is called.
FrameStream_anext_resume(outcome, cb) ==
    /\ awaiting[F] > 0
    /\ \E src \in PendingOn(F) :
       LET st == StreamOf(F, src)
           frame == Frame(RawFrame(st, st.pos + 1))
       IN  /\ outcome \in UpstreamOutcomes(st)
           /\ Answered(F, src, UpstreamStep(st, outcome))
           /\ CASE outcome = "end" ->
                     /\ cb = "ok"
                     /\ active' = [active EXCEPT ![F] = FALSE]
                     /\ ret' = [ret EXCEPT ![F] =
                                   Ret("anext", "StopAsyncIteration", None,
                                       "end")]
                     /\ UNCHANGED <<count, trace>>
                [] outcome = "fail" ->
                     /\ cb = "ok"
                     /\ ret' = [ret EXCEPT ![F] = Ret("anext", "error", None, "fail")]
                     /\ UNCHANGED <<active, count, trace>>
                [] OTHER ->
                     /\ count' = [count EXCEPT ![F] = count[F] + 1]
                     /\ IF on_frame
                        THEN IF cb = "raise"
                             THEN /\ trace' = [trace EXCEPT ![F] =
                                         Append(trace[F], <<"cb", frame>>)]
                                  /\ ret' = [ret EXCEPT ![F] =
                                         Ret("anext", "callback_error", None, "callback")]
                             ELSE /\ trace' = [trace EXCEPT ![F] =
                                         trace[F] \o <<(<<"cb", frame>>),
                                                       (<<"ret", frame>>)>>]
                                  /\ ret' = [ret EXCEPT ![F] =
                                         Ret("anext", "event", Some(frame), "event")]
                        ELSE /\ cb = "ok"
                             /\ trace' = [trace EXCEPT ![F] =
                                         Append(trace[F], <<"ret", frame>>)]
                             /\ ret' = [ret EXCEPT ![F] =
                                         Ret("anext", "event", Some(frame), "event")]
                     /\ UNCHANGED active
    /\ awaiting' = [awaiting EXCEPT ![F] = awaiting[F] - 1]
    /\ UNCHANGED <<config, iterator, phase, calls, others>>

----------------------------------------------------------------------------
(* ParameterSubscription *)

\* ParameterSubscription.__aenter__ that subscribes without passing its
\* filters on.
ParameterSubscription_aenter_no_filter ==
    /\ P \in objs
    /\ awaiting[P] < tasks
    /\ active' = [active EXCEPT ![P] = TRUE]
    /\ count' = [count EXCEPT ![P] = 0]
    /\ up' = [up EXCEPT ![P] = Some(stream_parameter_changes(P, None, None))]
    /\ prior' = [prior EXCEPT ![P] = Superseded(P)]
    /\ iterator' = [iterator EXCEPT ![P] = Some(P)]
    /\ ret' = [ret EXCEPT ![P] = Ret("aenter", "self", None, "none")]
    /\ trace' = [trace EXCEPT ![P] = <<>>]
    /\ phase' = [phase EXCEPT ![P] = Entered(phase[P])]
    /\ calls' = [calls EXCEPT ![P] = <<ClientCall("stream_parameter_changes", up'[P][1].args)>>]
    /\ UNCHANGED <<config, awaiting, others>>

ParameterSubscription_aenter ==
    /\ P \in objs
    /\ awaiting[P] < tasks
    /\ active' = [active EXCEPT ![P] = TRUE]
    /\ count' = [count EXCEPT ![P] = 0]
    /\ up' = [up EXCEPT ![P] = Some(stream_parameter_changes(P, device_id,
                                                   parameter_names))]
    /\ prior' = [prior EXCEPT ![P] = Superseded(P)]
    /\ iterator' = [iterator EXCEPT ![P] = Some(P)]
    /\ ret' = [ret EXCEPT ![P] = Ret("aenter", "self", None, "none")]
    /\ trace' = [trace EXCEPT ![P] = <<>>]
    /\ phase' = [phase EXCEPT ![P] = Entered(phase[P])]
    /\ calls' = [calls EXCEPT ![P] = <<ClientCall("stream_parameter_changes", up'[P][1].args)>>]
    /\ UNCHANGED <<config, awaiting, others>>

\* ParameterSubscription.__aexit__ that also resets _change_count.
ParameterSubscription_aexit_resets_count(exc) ==
    /\ P \in objs
    /\ awaiting[P] < tasks
    /\ active' = [active EXCEPT ![P] = FALSE]
    /\ iterator' = [iterator EXCEPT ![P] = None]
    /\ count' = [count EXCEPT ![P] = 0]
    /\ ret' = [ret EXCEPT ![P] = Ret("aexit", "False", None, "none")]
    /\ phase' = [phase EXCEPT ![P] = Closed(phase[P])]
    /\ calls' = [calls EXCEPT ![P] = <<>>]
    /\ UNCHANGED <<config, awaiting, up, prior, trace, others>>

\* exc is the exception the scope is left with, as passed in exc_type.
ParameterSubscription_aexit(exc) ==
    /\ P \in objs
    /\ awaiting[P] < tasks
    /\ active' = [active EXCEPT ![P] = FALSE]
    /\ iterator' = [iterator EXCEPT ![P] = None]
    /\ ret' = [ret EXCEPT ![P] = Ret("aexit", "False", None, "none")]
    /\ phase' = [phase EXCEPT ![P] = Closed(phase[P])]
    /\ calls' = [calls EXCEPT ![P] = <<>>]
    /\ UNCHANGED <<config, count, awaiting, up, prior, trace, others>>

\* __anext__ up to the await on the upstream iterator.
ParameterSubscription_anext ==
    /\ P \in objs
    /\ awaiting[P] < tasks
    /\ IF ~active[P] \/ iterator[P] = None
       THEN /\ ret' = [ret EXCEPT ![P] =
                          Ret("anext", "StopAsyncIteration", None,
                              "inactive")]
            /\ UNCHANGED awaiting
       ELSE /\ ret' = [ret EXCEPT ![P] = Ret("anext", "pending", None, "none")]
            /\ awaiting' = [awaiting EXCEPT ![P] = awaiting[P] + 1]
    /\ calls' = [calls EXCEPT ![P] =
           IF ret'[P].out = "pending" THEN <<IteratorCall>> ELSE <<>>]
    /\ UNCHANGED <<config, active, count, iterator, up, prior, trace,
                   phase, others>>

\* ParameterSubscription.__anext__ whose await is answered only when no
\* other subscription of the client has a read pending.
ParameterSubscription_anext_resume_after_siblings(outcome, cb) ==
    /\ awaiting[P] > 0
    /\ \A s \in Subs \ {P} : awaiting[s] = 0
    /\ \E src \in PendingOn(P) :
       LET st == StreamOf(P, src)
           change == ParameterChange(RawChange(st, st.pos + 1))
       IN  /\ outcome \in UpstreamOutcomes(st)
           /\ Answered(P, src, UpstreamStep(st, outcome))
           /\ CASE outcome = "end" ->
                     /\ cb = "ok"
                     /\ active' = [active EXCEPT ![P] = FALSE]
                     /\ ret' = [ret EXCEPT ![P] =
                                   Ret("anext", "StopAsyncIteration", None,
                                       "end")]
                     /\ UNCHANGED <<count, trace>>
                [] outcome = "fail" ->
                     /\ cb = "ok"
                     /\ ret' = [ret EXCEPT ![P] = Ret("anext", "error", None, "fail")]
                     /\ UNCHANGED <<active, count, trace>>
                [] OTHER ->
                     /\ count' = [count EXCEPT ![P] = count[P] + 1]
                     /\ IF on_change
                        THEN IF cb = "raise"
                             THEN /\ trace' = [trace EXCEPT ![P] =
                                         Append(trace[P], <<"cb", change>>)]
                                  /\ ret' = [ret EXCEPT ![P] =
                                         Ret("anext", "callback_error", None, "callback")]
                             ELSE /\ trace' = [trace EXCEPT ![P] =
                                         trace[P] \o <<(<<"cb", change>>),
                                                       (<<"ret", change>>)>>]
                                  /\ ret' = [ret EXCEPT ![P] =
                                         Ret("anext", "event", Some(change), "event")]
                        ELSE /\ cb = "ok"
                             /\ trace' = [trace EXCEPT ![P] =
                                         Append(trace[P], <<"ret", change>>)]
                             /\ ret' = [ret EXCEPT ![P] =
                                         Ret("anext", "event", Some(change), "event")]
                     /\ UNCHANGED active
    /\ awaiting' = [awaiting EXCEPT ![P] = awaiting[P] - 1]
    /\ UNCHANGED <<config, iterator, phase, calls, others>>

\* __anext__ from the await on: outcome is the upstream's answer, cb what
\* the on_change callback does if it is called.
ParameterSubscription_anext_resume(outcome, cb) ==
    /\ awaiting[P] > 0
    /\ \E src \in PendingOn(P) :
       LET st == StreamOf(P, src)
           change == ParameterChange(RawChange(st, st.pos + 1))
       IN  /\ outcome \in UpstreamOutcomes(st)
           /\ Answered(P, src, UpstreamStep(st, outcome))
           /\ CASE outcome = "end" ->
                     /\ cb = "ok"
                     /\ active' = [active EXCEPT ![P] = FALSE]
                     /\ ret' = [ret EXCEPT ![P] =
                                   Ret("anext", "StopAsyncIteration", None,
                                       "end")]
                     /\ UNCHANGED <<count, trace>>
                [] outcome = "fail" ->
                     /\ cb = "ok"
                     /\ ret' = [ret EXCEPT ![P] = Ret("anext", "error", None, "fail")]
                     /\ UNCHANGED <<active, count, trace>>
                [] OTHER ->
                     /\ count' = [count EXCEPT ![P] = count[P] + 1]
                     /\ IF on_change
                        THEN IF cb = "raise"
                             THEN /\ trace' = [trace EXCEPT ![P] =
                                         Append(trace[P], <<"cb", change>>)]
                                  /\ ret' = [ret EXCEPT ![P] =
                                         Ret("anext", "callback_error", None, "callback")]
                             ELSE /\ trace' = [trace EXCEPT ![P] =
                                         trace[P] \o <<(<<"cb", change>>),
                                                       (<<"ret", change>>)>>]
                                  /\ ret' = [ret EXCEPT ![P] =
                                         Ret("anext", "event", Some(change), "event")]
                        ELSE /\ cb = "ok"
                             /\ trace' = [trace EXCEPT ![P] =
                                         Append(trace[P], <<"ret", change>>)]
                             /\ ret' = [ret EXCEPT ![P] =
                                         Ret("anext", "event", Some(change), "event")]
                     /\ UNCHANGED active
    /\ awaiting' = [awaiting EXCEPT ![P] = awaiting[P] - 1]
    /\ UNCHANGED <<config, iterator, phase, calls, others>>

----------------------------------------------------------------------------
(* DeviceStateStream *)

\* DeviceStateStream.__aenter__ that never asks for the snapshot.
DeviceStateStream_aenter_no_snapshot ==
    /\ D \in objs
    /\ awaiting[D] < tasks
    /\ active' = [active EXCEPT ![D] = TRUE]
    /\ count' = [count EXCEPT ![D] = 0]
    /\ up' = [up EXCEPT ![D] = Some(stream_device_state(D, Some(StateDevices),
                                              max_rate_hz, FALSE))]
    /\ prior' = [prior EXCEPT ![D] = Superseded(D)]
    /\ iterator' = [iterator EXCEPT ![D] = Some(D)]
    /\ ret' = [ret EXCEPT ![D] = Ret("aenter", "self", None, "none")]
    /\ trace' = [trace EXCEPT ![D] = <<>>]
    /\ phase' = [phase EXCEPT ![D] = Entered(phase[D])]
    /\ calls' = [calls EXCEPT ![D] = <<ClientCall("stream_device_state", up'[D][1].args)>>]
    /\ UNCHANGED <<config, awaiting, others>>

DeviceStateStream_aenter ==
    /\ D \in objs
    /\ awaiting[D] < tasks
    /\ active' = [active EXCEPT ![D] = TRUE]
    /\ count' = [count EXCEPT ![D] = 0]
    /\ up' = [up EXCEPT ![D] = Some(stream_device_state(D, Some(StateDevices),
                                              max_rate_hz, include_snapshot))]
    /\ prior' = [prior EXCEPT ![D] = Superseded(D)]
    /\ iterator' = [iterator EXCEPT ![D] = Some(D)]
    /\ ret' = [ret EXCEPT ![D] = Ret("aenter", "self", None, "none")]
    /\ trace' = [trace EXCEPT ![D] = <<>>]
    /\ phase' = [phase EXCEPT ![D] = Entered(phase[D])]
    /\ calls' = [calls EXCEPT ![D] = <<ClientCall("stream_device_state", up'[D][1].args)>>]
    /\ UNCHANGED <<config, awaiting, others>>

\* DeviceStateStream.__aexit__ over state shared by all wrappers of the
\* client: it deactivates every one of them.
DeviceStateStream_aexit_closes_all(exc) ==
    /\ D \in objs
    /\ awaiting[D] < tasks
    /\ active' = [s \in Subs |-> FALSE]
    /\ iterator' = [s \in Subs |-> None]
    /\ ret' = [ret EXCEPT ![D] = Ret("aexit", "False", None, "none")]
    /\ phase' = [phase EXCEPT ![D] = Closed(phase[D])]
    /\ calls' = [calls EXCEPT ![D] = <<>>]
    /\ UNCHANGED <<config, count, awaiting, up, prior, trace, others>>

\* exc is the exception the scope is left with, as passed in exc_type.
DeviceStateStream_aexit(exc) ==
    /\ D \in objs
    /\ awaiting[D] < tasks
    /\ active' = [active EXCEPT ![D] = FALSE]
    /\ iterator' = [iterator EXCEPT ![D] = None]
    /\ ret' = [ret EXCEPT ![D] = Ret("aexit", "False", None, "none")]
    /\ phase' = [phase EXCEPT ![D] = Closed(phase[D])]
    /\ calls' = [calls EXCEPT ![D] = <<>>]
    /\ UNCHANGED <<config, count, awaiting, up, prior, trace, others>>

\* __anext__ up to the await on the upstream iterator.
DeviceStateStream_anext ==
    /\ D \in objs
    /\ awaiting[D] < tasks
    /\ IF ~active[D] \/ iterator[D] = None
       THEN /\ ret' = [ret EXCEPT ![D] =
                          Ret("anext", "StopAsyncIteration", None,
                              "inactive")]
            /\ UNCHANGED awaiting
       ELSE /\ ret' = [ret EXCEPT ![D] = Ret("anext", "pending", None, "none")]
            /\ awaiting' = [awaiting EXCEPT ![D] = awaiting[D] + 1]
    /\ calls' = [calls EXCEPT ![D] =
           IF ret'[D].out = "pending" THEN <<IteratorCall>> ELSE <<>>]
    /\ UNCHANGED <<config, active, count, iterator, up, prior, trace,
                   phase, others>>

\* DeviceStateStream.__anext__ that re-raises StopAsyncIteration without
\* clearing _active.
DeviceStateStream_anext_resume_stays_active(outcome) ==
    /\ awaiting[D] > 0
    /\ \E src \in PendingOn(D) :
       LET st == StreamOf(D, src)
           update == RawUpdate(st, st.pos + 1)
       IN  /\ outcome \in UpstreamOutcomes(st)
           /\ Answered(D, src, UpstreamStep(st, outcome))
           /\ CASE outcome = "end" ->
                     /\ ret' = [ret EXCEPT ![D] =
                                   Ret("anext", "StopAsyncIteration", None,
                                       "end")]
                     /\ UNCHANGED <<active, count, trace>>
                [] outcome = "fail" ->
                     /\ ret' = [ret EXCEPT ![D] = Ret("anext", "error", None, "fail")]
                     /\ UNCHANGED <<active, count, trace>>
                [] OTHER ->
                     /\ count' = [count EXCEPT ![D] = count[D] + 1]
                     /\ trace' = [trace EXCEPT ![D] =
                                     Append(trace[D], <<"ret", update>>)]
                     /\ ret' = [ret EXCEPT ![D] =
                                   Ret("anext", "event", Some(update), "event")]
                     /\ UNCHANGED active
    /\ awaiting' = [awaiting EXCEPT ![D] = awaiting[D] - 1]
    /\ UNCHANGED <<config, iterator, phase, calls, others>>

\* DeviceStateStream.__anext__ that limits the rate locally: once
\* max_rate_hz updates were delivered it drops what it receives and awaits
\* the next update.
DeviceStateStream_anext_resume_throttles(outcome) ==
    /\ awaiting[D] > 0
    /\ \E src \in PendingOn(D) :
       LET st == StreamOf(D, src)
           update == RawUpdate(st, st.pos + 1)
       IN  /\ outcome \in UpstreamOutcomes(st)
           /\ Answered(D, src, UpstreamStep(st, outcome))
           /\ CASE outcome = "end" ->
                     /\ active' = [active EXCEPT ![D] = FALSE]
                     /\ ret' = [ret EXCEPT ![D] =
                                   Ret("anext", "StopAsyncIteration", None,
                                       "end")]
                     /\ awaiting' = [awaiting EXCEPT ![D] = awaiting[D] - 1]
                     /\ UNCHANGED <<count, trace>>
                [] outcome = "fail" ->
                     /\ ret' = [ret EXCEPT ![D] = Ret("anext", "error", None, "fail")]
                     /\ awaiting' = [awaiting EXCEPT ![D] = awaiting[D] - 1]
                     /\ UNCHANGED <<active, count, trace>>
                [] OTHER ->
                     IF count[D] >= max_rate_hz
                     THEN UNCHANGED <<active, count, trace, ret, awaiting>>
                     ELSE /\ count' = [count EXCEPT ![D] = count[D] + 1]
                          /\ trace' = [trace EXCEPT ![D] =
                                          Append(trace[D], <<"ret", update>>)]
                          /\ ret' = [ret EXCEPT ![D] =
                                        Ret("anext", "event", Some(update), "event")]
                          /\ awaiting' = [awaiting EXCEPT ![D] = awaiting[D] - 1]
                          /\ UNCHANGED active
    /\ UNCHANGED <<config, iterator, phase, calls, others>>

\* __anext__ from the await on: outcome is the upstream's answer.
DeviceStateStream_anext_resume(outcome) ==
    /\ awaiting[D] > 0
    /\ \E src \in PendingOn(D) :
       LET st == StreamOf(D, src)
           update == RawUpdate(st, st.pos + 1)
       IN  /\ outcome \in UpstreamOutcomes(st)
           /\ Answered(D, src, UpstreamStep(st, outcome))
           /\ CASE outcome = "end" ->
                     /\ active' = [active EXCEPT ![D] = FALSE]
                     /\ ret' = [ret EXCEPT ![D] =
                                   Ret("anext", "StopAsyncIteration", None,
                                       "end")]
                     /\ UNCHANGED <<count, trace>>
                [] outcome = "fail" ->
                     /\ ret' = [ret EXCEPT ![D] = Ret("anext", "error", None, "fail")]
                     /\ UNCHANGED <<active, count, trace>>
                [] OTHER ->
                     /\ count' = [count EXCEPT ![D] = count[D] + 1]
                     /\ trace' = [trace EXCEPT ![D] =
                                     Append(trace[D], <<"ret", update>>)]
                     /\ ret' = [ret EXCEPT ![D] =
                                   Ret("anext", "event", Some(update), "event")]
                     /\ UNCHANGED active
    /\ awaiting' = [awaiting EXCEPT ![D] = awaiting[D] - 1]
    /\ UNCHANGED <<config, iterator, phase, calls, others>>

----------------------------------------------------------------------------
(* float(str), as ParameterChange.old_as_float / new_as_float call it.     *)
(* A string is a sequence of characters.                                   *)

\* The characters float() removes from the ends of a string: the ASCII
\* white space and the Unicode white space, named by code point.
WhiteSpace ==
    {"\t", "\n", "U+000B", "\f", "\r", " ", "U+0085", "U+00A0", "U+1680",
     "U+2000", "U+2001", "U+2002", "U+2003", "U+2004", "U+2005", "U+2006",
     "U+2007", "U+2008", "U+2009", "U+200A", "U+2028", "U+2029", "U+202F",
     "U+205F", "U+3000"}

\* The decimal digits float() reads: for each value 0..9 the ASCII digit and
\* the Unicode decimal digits of that value, named by code point.
DecimalDigits ==
    << {"0", "U+0660", "U+06F0", "U+07C0", "U+0966", "U+09E6", "U+0A66",
        "U+0AE6", "U+0B66", "U+0BE6", "U+0C66", "U+0CE6", "U+0D66", "U+0DE6",
        "U+0E50", "U+0ED0", "U+0F20", "U+1040", "U+1090", "U+17E0", "U+1810",
        "U+1946", "U+19D0", "U+1A80", "U+1A90", "U+1B50", "U+1BB0", "U+1C40",
        "U+1C50", "U+A620", "U+A8D0", "U+A900", "U+A9D0", "U+A9F0", "U+AA50",
        "U+ABF0", "U+FF10", "U+104A0", "U+10D30", "U+11066", "U+110F0",
        "U+11136", "U+111D0", "U+112F0", "U+11450", "U+114D0", "U+11650",
        "U+116C0", "U+11730", "U+118E0", "U+11950", "U+11C50", "U+11D50",
        "U+11DA0", "U+16A60", "U+16AC0", "U+16B50", "U+1D7CE", "U+1D7D8",
        "U+1D7E2", "U+1D7EC", "U+1D7F6", "U+1E140", "U+1E2F0", "U+1E950",
        "U+1FBF0"},
       {"1", "U+0661", "U+06F1", "U+07C1", "U+0967", "U+09E7", "U+0A67",
        "U+0AE7", "U+0B67", "U+0BE7", "U+0C67", "U+0CE7", "U+0D67", "U+0DE7",
        "U+0E51", "U+0ED1", "U+0F21", "U+1041", "U+1091", "U+17E1", "U+1811",
        "U+1947", "U+19D1", "U+1A81", "U+1A91", "U+1B51", "U+1BB1", "U+1C41",
        "U+1C51", "U+A621", "U+A8D1", "U+A901", "U+A9D1", "U+A9F1", "U+AA51",
        "U+ABF1", "U+FF11", "U+104A1", "U+10D31", "U+11067", "U+110F1",
        "U+11137", "U+111D1", "U+112F1", "U+11451", "U+114D1", "U+11651",
        "U+116C1", "U+11731", "U+118E1", "U+11951", "U+11C51", "U+11D51",
        "U+11DA1", "U+16A61", "U+16AC1", "U+16B51", "U+1D7CF", "U+1D7D9",
        "U+1D7E3", "U+1D7ED", "U+1D7F7", "U+1E141", "U+1E2F1", "U+1E951",
        "U+1FBF1"},
       {"2", "U+0662", "U+06F2", "U+07C2", "U+0968", "U+09E8", "U+0A68",
        "U+0AE8", "U+0B68", "U+0BE8", "U+0C68", "U+0CE8", "U+0D68", "U+0DE8",
        "U+0E52", "U+0ED2", "U+0F22", "U+1042", "U+1092", "U+17E2", "U+1812",
        "U+1948", "U+19D2", "U+1A82", "U+1A92", "U+1B52", "U+1BB2", "U+1C42",
        "U+1C52", "U+A622", "U+A8D2", "U+A902", "U+A9D2", "U+A9F2", "U+AA52",
        "U+ABF2", "U+FF12", "U+104A2", "U+10D32", "U+11068", "U+110F2",
        "U+11138", "U+111D2", "U+112F2", "U+11452", "U+114D2", "U+11652",
        "U+116C2", "U+11732", "U+118E2", "U+11952", "U+11C52", "U+11D52",
        "U+11DA2", "U+16A62", "U+16AC2", "U+16B52", "U+1D7D0", "U+1D7DA",
        "U+1D7E4", "U+1D7EE", "U+1D7F8", "U+1E142", "U+1E2F2", "U+1E952",
        "U+1FBF2"},
       {"3", "U+0663", "U+06F3", "U+07C3", "U+0969", "U+09E9", "U+0A69",
        "U+0AE9", "U+0B69", "U+0BE9", "U+0C69", "U+0CE9", "U+0D69", "U+0DE9",
        "U+0E53", "U+0ED3", "U+0F23", "U+1043", "U+1093", "U+17E3", "U+1813",
        "U+1949", "U+19D3", "U+1A83", "U+1A93", "U+1B53", "U+1BB3", "U+1C43",
        "U+1C53", "U+A623", "U+A8D3", "U+A903", "U+A9D3", "U+A9F3", "U+AA53",
        "U+ABF3", "U+FF13", "U+104A3", "U+10D33", "U+11069", "U+110F3",
        "U+11139", "U+111D3", "U+112F3", "U+11453", "U+114D3", "U+11653",
        "U+116C3", "U+11733", "U+118E3", "U+11953", "U+11C53", "U+11D53",
        "U+11DA3", "U+16A63", "U+16AC3", "U+16B53", "U+1D7D1", "U+1D7DB",
        "U+1D7E5", "U+1D7EF", "U+1D7F9", "U+1E143", "U+1E2F3", "U+1E953",
        "U+1FBF3"},
       {"4", "U+0664", "U+06F4", "U+07C4", "U+096A", "U+09EA", "U+0A6A",
        "U+0AEA", "U+0B6A", "U+0BEA", "U+0C6A", "U+0CEA", "U+0D6A", "U+0DEA",
        "U+0E54", "U+0ED4", "U+0F24", "U+1044", "U+1094", "U+17E4", "U+1814",
        "U+194A", "U+19D4", "U+1A84", "U+1A94", "U+1B54", "U+1BB4", "U+1C44",
        "U+1C54", "U+A624", "U+A8D4", "U+A904", "U+A9D4", "U+A9F4", "U+AA54",
        "U+ABF4", "U+FF14", "U+104A4", "U+10D34", "U+1106A", "U+110F4",
        "U+1113A", "U+111D4", "U+112F4", "U+11454", "U+114D4", "U+11654",
        "U+116C4", "U+11734", "U+118E4", "U+11954", "U+11C54", "U+11D54",
        "U+11DA4", "U+16A64", "U+16AC4", "U+16B54", "U+1D7D2", "U+1D7DC",
        "U+1D7E6", "U+1D7F0", "U+1D7FA", "U+1E144", "U+1E2F4", "U+1E954",
        "U+1FBF4"},
       {"5", "U+0665", "U+06F5", "U+07C5", "U+096B", "U+09EB", "U+0A6B",
        "U+0AEB", "U+0B6B", "U+0BEB", "U+0C6B", "U+0CEB", "U+0D6B", "U+0DEB",
        "U+0E55", "U+0ED5", "U+0F25", "U+1045", "U+1095", "U+17E5", "U+1815",
        "U+194B", "U+19D5", "U+1A85", "U+1A95", "U+1B55", "U+1BB5", "U+1C45",
        "U+1C55", "U+A625", "U+A8D5", "U+A905", "U+A9D5", "U+A9F5", "U+AA55",
        "U+ABF5", "U+FF15", "U+104A5", "U+10D35", "U+1106B", "U+110F5",
        "U+1113B", "U+111D5", "U+112F5", "U+11455", "U+114D5", "U+11655",
        "U+116C5", "U+11735", "U+118E5", "U+11955", "U+11C55", "U+11D55",
        "U+11DA5", "U+16A65", "U+16AC5", "U+16B55", "U+1D7D3", "U+1D7DD",
        "U+1D7E7", "U+1D7F1", "U+1D7FB", "U+1E145", "U+1E2F5", "U+1E955",
        "U+1FBF5"},
       {"6", "U+0666", "U+06F6", "U+07C6", "U+096C", "U+09EC", "U+0A6C",
        "U+0AEC", "U+0B6C", "U+0BEC", "U+0C6C", "U+0CEC", "U+0D6C", "U+0DEC",
        "U+0E56", "U+0ED6", "U+0F26", "U+1046", "U+1096", "U+17E6", "U+1816",
        "U+194C", "U+19D6", "U+1A86", "U+1A96", "U+1B56", "U+1BB6", "U+1C46",
        "U+1C56", "U+A626", "U+A8D6", "U+A906", "U+A9D6", "U+A9F6", "U+AA56",
        "U+ABF6", "U+FF16", "U+104A6", "U+10D36", "U+1106C", "U+110F6",
        "U+1113C", "U+111D6", "U+112F6", "U+11456", "U+114D6", "U+11656",
        "U+116C6", "U+11736", "U+118E6", "U+11956", "U+11C56", "U+11D56",
        "U+11DA6", "U+16A66", "U+16AC6", "U+16B56", "U+1D7D4", "U+1D7DE",
        "U+1D7E8", "U+1D7F2", "U+1D7FC", "U+1E146", "U+1E2F6", "U+1E956",
        "U+1FBF6"},
       {"7", "U+0667", "U+06F7", "U+07C7", "U+096D", "U+09ED", "U+0A6D",
        "U+0AED", "U+0B6D", "U+0BED", "U+0C6D", "U+0CED", "U+0D6D", "U+0DED",
        "U+0E57", "U+0ED7", "U+0F27", "U+1047", "U+1097", "U+17E7", "U+1817",
        "U+194D", "U+19D7", "U+1A87", "U+1A97", "U+1B57", "U+1BB7", "U+1C47",
        "U+1C57", "U+A627", "U+A8D7", "U+A907", "U+A9D7", "U+A9F7", "U+AA57",
        "U+ABF7", "U+FF17", "U+104A7", "U+10D37", "U+1106D", "U+110F7",
        "U+1113D", "U+111D7", "U+112F7", "U+11457", "U+114D7", "U+11657",
        "U+116C7", "U+11737", "U+118E7", "U+11957", "U+11C57", "U+11D57",
        "U+11DA7", "U+16A67", "U+16AC7", "U+16B57", "U+1D7D5", "U+1D7DF",
        "U+1D7E9", "U+1D7F3", "U+1D7FD", "U+1E147", "U+1E2F7", "U+1E957",
        "U+1FBF7"},
       {"8", "U+0668", "U+06F8", "U+07C8", "U+096E", "U+09EE", "U+0A6E",
        "U+0AEE", "U+0B6E", "U+0BEE", "U+0C6E", "U+0CEE", "U+0D6E", "U+0DEE",
        "U+0E58", "U+0ED8", "U+0F28", "U+1048", "U+1098", "U+17E8", "U+1818",
        "U+194E", "U+19D8", "U+1A88", "U+1A98", "U+1B58", "U+1BB8", "U+1C48",
        "U+1C58", "U+A628", "U+A8D8", "U+A908", "U+A9D8", "U+A9F8", "U+AA58",
        "U+ABF8", "U+FF18", "U+104A8", "U+10D38", "U+1106E", "U+110F8",
        "U+1113E", "U+111D8", "U+112F8", "U+11458", "U+114D8", "U+11658",
        "U+116C8", "U+11738", "U+118E8", "U+11958", "U+11C58", "U+11D58",
        "U+11DA8", "U+16A68", "U+16AC8", "U+16B58", "U+1D7D6", "U+1D7E0",
        "U+1D7EA", "U+1D7F4", "U+1D7FE", "U+1E148", "U+1E2F8", "U+1E958",
        "U+1FBF8"},
       {"9", "U+0669", "U+06F9", "U+07C9", "U+096F", "U+09EF", "U+0A6F",
        "U+0AEF", "U+0B6F", "U+0BEF", "U+0C6F", "U+0CEF", "U+0D6F", "U+0DEF",
        "U+0E59", "U+0ED9", "U+0F29", "U+1049", "U+1099", "U+17E9", "U+1819",
        "U+194F", "U+19D9", "U+1A89", "U+1A99", "U+1B59", "U+1BB9", "U+1C49",
        "U+1C59", "U+A629", "U+A8D9", "U+A909", "U+A9D9", "U+A9F9", "U+AA59",
        "U+ABF9", "U+FF19", "U+104A9", "U+10D39", "U+1106F", "U+110F9",
        "U+1113F", "U+111D9", "U+112F9", "U+11459", "U+114D9", "U+11659",
        "U+116C9", "U+11739", "U+118E9", "U+11959", "U+11C59", "U+11D59",
        "U+11DA9", "U+16A69", "U+16AC9", "U+16B59", "U+1D7D7", "U+1D7E1",
        "U+1D7EB", "U+1D7F5", "U+1D7FF", "U+1E149", "U+1E2F9", "U+1E959",
        "U+1FBF9"} >>

IsDigit(c) == \E d \in 0..9 : c \in DecimalDigits[d + 1]
IsSpace(c) == c \in WhiteSpace

\* The value of a digit character.
DigitValue(c) ==
    CHOOSE d \in 0..9 : c \in DecimalDigits[d + 1]

\* Lower case of the letters that occur in inf, infinity and nan.
Lower(c) ==
    CASE c = "I" -> "i" [] c = "N" -> "n" [] c = "F" -> "f" [] c = "A" -> "a"
      [] c = "T" -> "t" [] c = "Y" -> "y" [] c = "E" -> "e" [] OTHER -> c

LowerAll(str) == [i \in 1..Len(str) |-> Lower(str[i])]

\* str without its leading and trailing whitespace.
RECURSIVE LStrip(_)
LStrip(str) ==
    IF str # <<>> /\ IsSpace(Head(str)) THEN LStrip(Tail(str)) ELSE str

RECURSIVE RStrip(_)
RStrip(str) ==
    IF str # <<>> /\ IsSpace(str[Len(str)])
    THEN RStrip(SubSeq(str, 1, Len(str) - 1)) ELSE str

Strip(str) == RStrip(LStrip(str))

\* digit (["_"] digit)*
DigitPart(str) ==
    /\ str # <<>>
    /\ \A i \in 1..Len(str) :
           \/ IsDigit(str[i])
           \/ /\ str[i] = "_"
              /\ 1 < i /\ i < Len(str)
              /\ IsDigit(str[i - 1]) /\ IsDigit(str[i + 1])

\* The positions of character c in str.
Positions(str, c) == {i \in 1..Len(str) : str[i] = c}

Unsigned(str) ==
    IF str # <<>> /\ Head(str) \in {"+", "-"} THEN Tail(str) ELSE str

IsNegative(str) == str # <<>> /\ Head(str) = "-"

\* Mantissa and exponent of an unsigned literal in lower case: the parts
\* before and after its first "e".
ExpAt(str) ==
    IF Positions(str, "e") = {} THEN Len(str) + 1
    ELSE CHOOSE i \in Positions(str, "e") :
             \A j \in Positions(str, "e") : i <= j

Mantissa(str) == SubSeq(str, 1, ExpAt(str) - 1)
Exponent(str) == SubSeq(str, ExpAt(str) + 1, Len(str))

\* Integer and fraction digits of a mantissa: the parts before and after
\* its first ".".
PointAt(m) ==
    IF Positions(m, ".") = {} THEN Len(m) + 1
    ELSE CHOOSE i \in Positions(m, ".") :
             \A j \in Positions(m, ".") : i <= j

IntDigits(m) == SubSeq(m, 1, PointAt(m) - 1)
FracDigits(m) == SubSeq(m, PointAt(m) + 1, Len(m))

IsMantissa(m) ==
    /\ IntDigits(m) = <<>> \/ DigitPart(IntDigits(m))
    /\ FracDigits(m) = <<>> \/ DigitPart(FracDigits(m))
    /\ IntDigits(m) # <<>> \/ FracDigits(m) # <<>>

IsExponent(e) == DigitPart(Unsigned(e))

\* The decimal floating-point literals float() accepts, sign removed.
IsDecimal(str) ==
    /\ IsMantissa(Mantissa(str))
    /\ ExpAt(str) <= Len(str) => IsExponent(Exponent(str))

IsSpecial(str) ==
    str \in {<<"i", "n", "f">>, <<"n", "a", "n">>,
             <<"i", "n", "f", "i", "n", "i", "t", "y">>}

\* float() accepts str (after stripping whitespace): an optional sign and
\* then inf, infinity, nan or a decimal literal.
IsFloatLiteral(str) ==
    LET u == Unsigned(LowerAll(Strip(str)))
    IN  IsSpecial(u) \/ IsDecimal(u)

\* The natural number written by the digits of str, underscores skipped.
RECURSIVE Natural(_)
Natural(str) ==
    IF str = <<>> THEN 0
    ELSE IF str[Len(str)] = "_" THEN Natural(SubSeq(str, 1, Len(str) - 1))
    ELSE 10 * Natural(SubSeq(str, 1, Len(str) - 1))
         + DigitValue(str[Len(str)])

IsDigitChar(c) == IsDigit(c)
CountDigits(str) == Len(SelectSeq(str, IsDigitChar))

\* digits * 10^exp10 without trailing zeros in digits.
RECURSIVE Normal(_, _)
Normal(digits, exp10) ==
    IF digits = 0 THEN [digits |-> 0, exp10 |-> 0]
    ELSE IF digits % 10 = 0 THEN Normal(digits \div 10, exp10 + 1)
    ELSE [digits |-> digits, exp10 |-> exp10]

\* The first n digits, n = 1..10, of 2^1024 - 2^970, the least number that
\* rounds to an infinity: half an ulp above the largest double.
RoundsToInf ==
    <<1, 17, 179, 1797, 17976, 179769, 1797693, 17976931, 179769313,
      1797693134>>

\* The first n digits, n = 1..9, of 2^-1075, the largest number that rounds
\* to zero: half the smallest subnormal double.
RoundsToZero ==
    <<2, 24, 247, 2470, 24703, 247032, 2470328, 24703282, 247032822>>

\* digits * 10^exp10 (digits without trailing zeros, of at most ten digits)
\* is at least 2^1024 - 2^970; no such decimal is equal to it.
Overflows(digits, exp10) ==
    LET n == Len(Chars(digits))
        order == n + exp10
    IN  \/ order > MaxExp10
        \/ order = MaxExp10 /\ digits > RoundsToInf[n]

\* digits * 10^exp10 is at most 2^-1075; no such decimal is equal to it.
Underflows(digits, exp10) ==
    LET n == Len(Chars(digits))
        order == n + exp10
    IN  \/ order < MinExp10
        \/ order = MinExp10 /\ (n > 9 \/ digits <= RoundsToZero[n])

\* The float a literal denotes: nan, an infinity, or the double nearest to
\* digits * 10^exp10, written by that decimal.  Decimals that round to an
\* infinity or to zero give that.
FloatValue(str) ==
    LET t == LowerAll(Strip(str))
        neg == IsNegative(t)
        u == Unsigned(t)
        m == Mantissa(u)
        e == Exponent(u)
        e10 == (IF IsNegative(e) THEN 0 - Natural(Unsigned(e))
                ELSE Natural(Unsigned(e))) - CountDigits(FracDigits(m))
        n == Normal(Natural(IntDigits(m) \o FracDigits(m)), e10)
    IN  IF u = <<"n", "a", "n">> THEN [kind |-> "nan"]
        ELSE IF IsSpecial(u) \/ (n.digits # 0 /\ Overflows(n.digits, n.exp10))
        THEN [kind |-> "inf", negative |-> neg]
        ELSE IF n.digits = 0 \/ Underflows(n.digits, n.exp10)
        THEN [kind |-> "finite", negative |-> neg, digits |-> 0, exp10 |-> 0]
        ELSE [kind |-> "finite", negative |-> neg, digits |-> n.digits,
              exp10 |-> n.exp10]

\* float(str): the value, or ValueError.
float(str) ==
    IF IsFloatLiteral(str)
    THEN [out |-> "float", val |-> Some(FloatValue(str))]
    ELSE [out |-> "ValueError", val |-> None]

\* The ParameterChange the consumer holds: the one __anext__ returned last.
HeldChange == ret[P].val[1]

ParameterChange_old_as_float ==
    /\ ret[P].out = "event"
    /\ conv' = Conversion("old_as_float", float(HeldChange.old_value))
    /\ UNCHANGED <<config, wrapVars, genVars, decodeVars, pointVars, ctlVars,
                   main>>

\* ParameterChange.new_as_float that gives 0.0 for a string that is not a
\* number.
ParameterChange_new_as_float_lenient ==
    /\ ret[P].out = "event"
    /\ conv' = IF IsFloatLiteral(HeldChange.new_value)
               THEN Conversion("new_as_float", float(HeldChange.new_value))
               ELSE Conversion("new_as_float",
                               float(<<"0">>))
    /\ UNCHANGED <<config, wrapVars, genVars, decodeVars, pointVars, ctlVars,
                   main>>

ParameterChange_new_as_float ==
    /\ ret[P].out = "event"
    /\ conv' = Conversion("new_as_float", float(HeldChange.new_value))
    /\ UNCHANGED <<config, wrapVars, genVars, decodeVars, pointVars, ctlVars,
                   main>>

----------------------------------------------------------------------------
(* Frame.to_numpy                                                          *)

\* format_map, with the item size of each dtype in bytes.
Formats == {"u8", "u16_le", "u16_be", "f32_le"}

ItemSize(format) ==
    CASE format = "u8" -> 1
      [] format = "u16_le" -> 2
      [] format = "u16_be" -> 2
      [] format = "f32_le" -> 4

\* The item that starts at byte i of the buffer.  np.uint16 and np.float32
\* have the byte order of the machine, taken to be little-endian; a float32
\* is written by the sign, exponent and fraction fields of its bits.
Item(format, data, i) ==
    CASE format = "u8" -> data[i]
      [] format = "u16_le" -> data[i] + 256 * data[i + 1]
      [] format = "u16_be" -> 256 * data[i] + data[i + 1]
      [] format = "f32_le" ->
             [sign |-> data[i + 3] \div 128,
              exponent |-> 2 * (data[i + 3] % 128) + data[i + 2] \div 128,
              fraction |-> 65536 * (data[i + 2] % 128) + 256 * data[i + 1]
                           + data[i]]

\* np.frombuffer that ignores the bytes left over after the last whole
\* item.
frombuffer_truncating(data, format) ==
    [out |-> "ndarray",
     flat |-> [k \in 1..(Len(data) \div ItemSize(format)) |->
                  Item(format, data, (k - 1) * ItemSize(format) + 1)]]

\* np.frombuffer(data, dtype): the flat array of the items, or ValueError
\* when the buffer is not a whole number of items.
frombuffer(data, format) ==
    IF Len(data) % ItemSize(format) # 0
    THEN [out |-> "ValueError", why |-> "buffer size"]
    ELSE [out |-> "ndarray",
          flat |-> [k \in 1..(Len(data) \div ItemSize(format)) |->
                       Item(format, data, (k - 1) * ItemSize(format) + 1)]]

\* arr.reshape((height, width)) in Fortran (column-major) order.
reshape_column_major(flat, height, width) ==
    IF height < 0 \/ width < 0 \/ height * width # Len(flat)
    THEN [out |-> "ValueError", why |-> "reshape"]
    ELSE [out |-> "ndarray", shape |-> <<height, width>>,
          rows |-> [r \in 1..height |->
                       [c \in 1..width |-> flat[(c - 1) * height + r]]]]

\* arr.reshape((height, width)): row-major.  A dimension of -1 is inferred
\* from the size of the array; any other negative dimension is an error.
reshape(flat, height, width) ==
    LET size == Len(flat)
        rows == IF height = -1 /\ width > 0 THEN size \div width ELSE height
        cols == IF width = -1 /\ height > 0 THEN size \div height ELSE width
    IN  IF rows < 0 \/ cols < 0 \/ rows * cols # size
        THEN [out |-> "ValueError", why |-> "reshape"]
        ELSE [out |-> "ndarray", shape |-> <<rows, cols>>,
              rows |-> [r \in 1..rows |->
                           [c \in 1..cols |-> flat[(r - 1) * cols + c]]]]

\* Frame.to_numpy on frame f, with numpy importable or not.
to_numpy(f, importable) ==
    IF ~importable
    THEN [out |-> "ImportError", why |-> "numpy is required"]
    ELSE IF f.pixel_data = None
    THEN [out |-> "ValueError", why |-> "No pixel data available"]
    ELSE IF f.pixel_format \notin Formats
    THEN [out |-> "ValueError", why |-> "Unknown pixel format"]
    ELSE LET arr == frombuffer(f.pixel_data[1], f.pixel_format)
         IN  IF arr.out # "ndarray" THEN arr
             ELSE reshape(arr.flat, f.height, f.width)

NoArray == [out |-> "none"]

\* The frames to_numpy is tried on: every width and height from -1 to
\* MaxDim, the four formats and one that is unknown, no pixel data or a
\* buffer of any length up to one byte more than the largest frame needs.
Dims == -1..MaxDim
FormatTags == Formats \cup {"rgb8"}
MaxBytes == 4 * MaxDim * MaxDim + 1
Buffer(len) == [i \in 1..len |-> (37 * i) % 256]
PixelData == {None} \cup {Some(Buffer(len)) : len \in 0..MaxBytes}

Frames ==
    {[device_id |-> FrameDevice, frame_number |-> 1, width |-> w,
      height |-> h, timestamp_ns |-> 1, pixel_data |-> d, pixel_format |-> t] :
        w \in Dims, h \in Dims, d \in PixelData, t \in FormatTags}

Frame_to_numpy ==
    /\ self_frame # None
    /\ array' = to_numpy(self_frame[1], numpy)
    /\ UNCHANGED <<config, wrapVars, genVars, conv, self_frame, numpy,
                   pointVars, ctlVars, main>>

----------------------------------------------------------------------------
(* DaqClient.stream_status / stream_measurements                           *)

\* Messages of the two server streams (ControlService.StreamStatus and
\* StreamMeasurements); payload says which member of the oneof is set.
SystemStatus(n) ==
    [current_state |-> "RUNNING", current_memory_usage_mb |-> n,
     live_values |-> <<>>, timestamp_ns |-> n]

DataPoint(instrument, n, payload) ==
    [instrument |-> instrument, timestamp_ns |-> n, payload |-> payload,
     scalar |-> IF payload = "scalar" THEN n ELSE 0,
     image |-> IF payload = "image" THEN <<n>> ELSE <<>>]

HasField(data_point, field) == data_point.payload = field

\* What reading the server stream can result in.  On a closed channel no
\* RPC can be invoked (grpc raises ValueError); a stream whose connection
\* was lost, or whose channel was closed under it, raises grpc.RpcError.
RpcOutcomes(g) ==
    IF g.rpc = "none" /\ channel = "closed" THEN {"closed"}
    ELSE IF g.rpc = "lost" THEN {"fail"}
    ELSE IF g.rpc \in {"none", "open"}
    THEN (IF g.pos < MaxTicks THEN {"event"} ELSE {}) \cup {"end", "fail"}
    ELSE {}

\* The generators after the streams that are open on the connection were
\* cut off.
CutOff(gs) ==
    [g \in Gens |-> IF gs[g].rpc = "open"
                    THEN Generator(gs[g].state, gs[g].pos, "lost")
                    ELSE gs[g]]

\* The dict stream_status yields for a message.
StatusDict(status) ==
    [state |-> status.current_state,
     memory_mb |-> status.current_memory_usage_mb,
     live_values |-> status.live_values,
     timestamp |-> status.timestamp_ns]

\* The dict of a stream_measurements that reads both members of the oneof
\* without asking HasField.
MeasurementDict_reads_members(data_point) ==
    [instrument |-> data_point.instrument,
     timestamp |-> data_point.timestamp_ns,
     value |-> Some(data_point.scalar),
     image |-> Some(data_point.image)]

\* The dict stream_measurements yields for a message.
MeasurementDict(data_point) ==
    [instrument |-> data_point.instrument,
     timestamp |-> data_point.timestamp_ns,
     value |-> IF HasField(data_point, "scalar") THEN Some(data_point.scalar)
               ELSE None,
     image |-> IF HasField(data_point, "scalar") THEN None
               ELSE IF HasField(data_point, "image") THEN Some(data_point.image)
               ELSE None]

\* Calling the method returns a new generator; none of its body has run.
DaqClient_stream_status ==
    /\ gen' = [gen EXCEPT ![GS] = Generator("created", 0, "none")]
    /\ seen' = [seen EXCEPT ![GS] = Seen("none", None, "none", None)]
    /\ UNCHANGED <<config, wrapVars, pureVars, ctlVars, main, channel,
                   received>>

DaqClient_stream_measurements ==
    /\ gen' = [gen EXCEPT ![GM] = Generator("created", 0, "none")]
    /\ seen' = [seen EXCEPT ![GM] = Seen("none", None, "none", None)]
    /\ received' = None
    /\ UNCHANGED <<config, wrapVars, pureVars, ctlVars, main, channel>>

\* A stream_status that subscribes again after a stream error.
stream_status_next_resubscribes(outcome) ==
    /\ gen[GS].state # "none"
    /\ IF gen[GS].state = "done"
       THEN /\ outcome = "end"
            /\ seen' = [seen EXCEPT ![GS] =
                   Seen("StopIteration", None, seen[GS].cause, seen[GS].stdout)]
            /\ UNCHANGED gen
       ELSE /\ outcome \in RpcOutcomes(gen[GS])
            /\ CASE outcome = "event" ->
                      /\ gen' = [gen EXCEPT ![GS] =
                             Generator("suspended", gen[GS].pos + 1, "open")]
                      /\ seen' = [seen EXCEPT ![GS] =
                             Seen("item",
                                  Some(StatusDict(SystemStatus(gen[GS].pos + 1))),
                                  "none", None)]
                 [] outcome = "closed" ->
                      /\ gen' = [gen EXCEPT ![GS] =
                             Generator("done", gen[GS].pos, "refused")]
                      /\ seen' = [seen EXCEPT ![GS] =
                             Seen("ValueError", None, "closed", None)]
                 [] outcome = "end" ->
                      /\ gen' = [gen EXCEPT ![GS] =
                             Generator("done", gen[GS].pos, "ended")]
                      /\ seen' = [seen EXCEPT ![GS] =
                             Seen("StopIteration", None, "ended", None)]
                 [] OTHER ->
                      IF gen[GS].pos < MaxTicks /\ channel = "open"
                      THEN /\ gen' = [gen EXCEPT ![GS] =
                                  Generator("suspended", gen[GS].pos + 1, "open")]
                           /\ seen' = [seen EXCEPT ![GS] =
                                  Seen("item",
                                       Some(StatusDict(
                                           SystemStatus(gen[GS].pos + 1))),
                                       "none", Some("Stream error"))]
                      ELSE /\ gen' = [gen EXCEPT ![GS] =
                                  Generator("done", gen[GS].pos, "failed")]
                           /\ seen' = [seen EXCEPT ![GS] =
                                  Seen("StopIteration", None, "failed",
                                       Some("Stream error"))]
    /\ UNCHANGED <<config, wrapVars, pureVars, ctlVars, main, channel,
                   received>>

\* next() on the generator of stream_status: the body runs to the next
\* yield or to its return.
stream_status_next(outcome) ==
    /\ gen[GS].state # "none"
    /\ IF gen[GS].state = "done"
       THEN /\ outcome = "end"
            /\ seen' = [seen EXCEPT ![GS] =
                   Seen("StopIteration", None, seen[GS].cause, seen[GS].stdout)]
            /\ UNCHANGED gen
       ELSE /\ outcome \in RpcOutcomes(gen[GS])
            /\ CASE outcome = "event" ->
                      /\ gen' = [gen EXCEPT ![GS] =
                             Generator("suspended", gen[GS].pos + 1, "open")]
                      /\ seen' = [seen EXCEPT ![GS] =
                             Seen("item",
                                  Some(StatusDict(SystemStatus(gen[GS].pos + 1))),
                                  "none", None)]
                 [] outcome = "closed" ->
                      /\ gen' = [gen EXCEPT ![GS] =
                             Generator("done", gen[GS].pos, "refused")]
                      /\ seen' = [seen EXCEPT ![GS] =
                             Seen("ValueError", None, "closed", None)]
                 [] outcome = "end" ->
                      /\ gen' = [gen EXCEPT ![GS] =
                             Generator("done", gen[GS].pos, "ended")]
                      /\ seen' = [seen EXCEPT ![GS] =
                             Seen("StopIteration", None, "ended", None)]
                 [] OTHER ->
                      /\ gen' = [gen EXCEPT ![GS] =
                             Generator("done", gen[GS].pos, "failed")]
                      /\ seen' = [seen EXCEPT ![GS] =
                             Seen("StopIteration", None, "failed",
                                  Some("Stream error"))]
    /\ UNCHANGED <<config, wrapVars, pureVars, ctlVars, main, channel,
                   received>>

\* next() on the generator of stream_measurements.
stream_measurements_next(outcome, payload) ==
    /\ gen[GM].state # "none"
    /\ IF gen[GM].state = "done"
       THEN /\ outcome = "end"
            /\ payload = "none"
            /\ seen' = [seen EXCEPT ![GM] =
                   Seen("StopIteration", None, seen[GM].cause, seen[GM].stdout)]
            /\ UNCHANGED <<gen, received>>
       ELSE /\ outcome \in RpcOutcomes(gen[GM])
            /\ CASE outcome = "event" ->
                      /\ gen' = [gen EXCEPT ![GM] =
                             Generator("suspended", gen[GM].pos + 1, "open")]
                      /\ received' =
                             Some(DataPoint(Instrument, gen[GM].pos + 1,
                                            payload))
                      /\ seen' = [seen EXCEPT ![GM] =
                             Seen("item",
                                  Some(MeasurementDict(received'[1])),
                                  "none", None)]
                 [] outcome = "closed" ->
                      /\ payload = "none"
                      /\ gen' = [gen EXCEPT ![GM] =
                             Generator("done", gen[GM].pos, "refused")]
                      /\ UNCHANGED received
                      /\ seen' = [seen EXCEPT ![GM] =
                             Seen("ValueError", None, "closed", None)]
                 [] outcome = "end" ->
                      /\ payload = "none"
                      /\ gen' = [gen EXCEPT ![GM] =
                             Generator("done", gen[GM].pos, "ended")]
                      /\ UNCHANGED received
                      /\ seen' = [seen EXCEPT ![GM] =
                             Seen("StopIteration", None, "ended", None)]
                 [] OTHER ->
                      /\ payload = "none"
                      /\ gen' = [gen EXCEPT ![GM] =
                             Generator("done", gen[GM].pos, "failed")]
                      /\ UNCHANGED received
                      /\ seen' = [seen EXCEPT ![GM] =
                             Seen("StopIteration", None, "failed",
                                  Some("Measurement stream error"))]
    /\ UNCHANGED <<config, wrapVars, pureVars, ctlVars, main, channel>>

(* DataPoint of the rust_daq extension module.  Its constructor converts   *)
(* the Python arguments to values of the Rust side.                        *)

\* A JSON value of the Rust side: Null, Bool, Number, String, Array or
\* Object.  A Number is an integer or a double; a value is held by its
\* text.
Json(kind, value, items) == [kind |-> kind, value |-> value, items |-> items]
Number(repr, v) == Json("Number", <<repr, v>>, <<>>)
Scalar(kind, v) == Json(kind, <<v>>, <<>>)
Unsupported == Json("TypeError", <<>>, <<>>)

\* The Python types JSON has a value for.
JsonTypes == {"NoneType", "bool", "int", "float", "str", "list", "dict"}

\* A conversion that checks the types of the top-level values only.
RECURSIVE to_json_shallow(_)
to_json_shallow(obj) ==
    CASE obj.type = "NoneType" -> Json("Null", <<>>, <<>>)
      [] obj.type = "bool" -> Scalar("Bool", obj.value)
      [] obj.type = "int" -> Number("i64", obj.value)
      [] obj.type = "float" -> Number("f64", obj.value)
      [] obj.type = "str" -> Scalar("String", obj.value)
      [] obj.type \in {"list", "dict"} ->
             LET items == IF obj.items = <<>> THEN <<>>
                          ELSE [i \in 1..Len(obj.items) |->
                                   <<obj.items[i][1],
                                     to_json_shallow(obj.items[i][2])>>]
             IN  IF \E i \in 1..Len(items) :
                        obj.items[i][2].type \notin JsonTypes
                 THEN Unsupported
                 ELSE Json(IF obj.type = "list" THEN "Array" ELSE "Object",
                           <<>>, items)
      [] OTHER -> Json("Null", <<>>, <<>>)

\* Python object to JSON value; a type JSON has no value for is an error,
\* wherever in the object it occurs.
RECURSIVE to_json(_)
to_json(obj) ==
    CASE obj.type = "NoneType" -> Json("Null", <<>>, <<>>)
      [] obj.type = "bool" -> Scalar("Bool", obj.value)
      [] obj.type = "int" -> Number("i64", obj.value)
      [] obj.type = "float" -> Number("f64", obj.value)
      [] obj.type = "str" -> Scalar("String", obj.value)
      [] obj.type \in {"list", "dict"} ->
             LET items == IF obj.items = <<>> THEN <<>>
                          ELSE [i \in 1..Len(obj.items) |->
                                   <<obj.items[i][1],
                                     to_json(obj.items[i][2])>>]
             IN  IF \E i \in 1..Len(items) : items[i][2] = Unsupported
                 THEN Unsupported
                 ELSE Json(IF obj.type = "list" THEN "Array" ELSE "Object",
                           <<>>, items)
      [] OTHER -> Unsupported

\* The datetime arguments: timezone-aware (UTC) and naive.
Timestamps == {[tzinfo |-> Some("UTC"), t |-> 1], [tzinfo |-> None, t |-> 1]}

\* The leaves of the metadata the tests generate: None, booleans, integers,
\* finite floats and text.
JSON_PRIMITIVE ==
    {PyNone, PyBool(TRUE), PyInt(2), PyInt(10), PyFloat("12.5"), PyStr("PMT")}

\* The values the tests pass that are no JSON values: a set and an
\* instrument object.
NotJson == {PySet, PyInstrument}

\* Lists and dicts nested up to depth deep over the leaves.
MetadataKeys == {"detector"}
RECURSIVE Nested(_, _)
Nested(leaves, depth) ==
    IF depth = 0 THEN leaves
    ELSE LET below == Nested(leaves, depth - 1) IN
         leaves \cup {PyDict(<<>>), PyList(<<>>)}
                \cup {PyDict(<< <<k, v>> >>) : k \in MetadataKeys, v \in below}
                \cup {PyList(<< <<"", v>> >>) : v \in below}

\* The metadata the tests generate, of any JSON type at the top.
JSON_METADATA(depth) == Nested(JSON_PRIMITIVE, depth)

\* The metadata arguments: the JSON metadata, and the values that hold a
\* set or an instrument object somewhere: the value itself, or a dict or
\* list over it.
PyValues(depth) == Nested(JSON_PRIMITIVE \cup NotJson, depth)
MetadataArgs == PyValues(MaxDepth)

\* DataPoint(timestamp, channel, value, unit, metadata): the timestamp must
\* carry a timezone and the metadata, unless None, must convert to JSON;
\* otherwise TypeError is raised and no object exists.
DataPoint_new(timestamp, metadata) ==
    /\ made' =
          IF timestamp.tzinfo = None
          THEN Made("TypeError", timestamp, metadata, None)
          ELSE IF metadata = PyNone
          THEN Made("DataPoint", timestamp, metadata,
                    Some([timestamp |-> timestamp, metadata |-> None]))
          ELSE IF to_json(metadata) = Unsupported
          THEN Made("TypeError", timestamp, metadata, None)
          ELSE Made("DataPoint", timestamp, metadata,
                    Some([timestamp |-> timestamp,
                          metadata |-> Some(to_json(metadata))]))
    /\ UNCHANGED <<config, wrapVars, genVars, conv, decodeVars, ctlVars, main>>

----------------------------------------------------------------------------

\* DaqClient.close: the channel is closed, which cuts off every stream that
\* is open on it.
DaqClient_close ==
    /\ channel = "open"
    /\ channel' = "closed"
    /\ gen' = CutOff(gen)
    /\ UNCHANGED <<config, wrapVars, pureVars, ctlVars, seen, received>>

\* The connection to the daemon is lost: the streams open on it are cut
\* off; the channel stays open and connects again for later calls.
Connection_fails ==
    /\ channel = "open"
    /\ \E g \in Gens : gen[g].rpc = "open"
    /\ gen' = CutOff(gen)
    /\ UNCHANGED <<config, wrapVars, pureVars, ctlVars, main, seen, channel,
                   received>>

----------------------------------------------------------------------------
(* The daemon's ControlService: UploadScript, StartScript,                 *)
(* GetScriptStatus, StopScript, and the scripts it runs.                   *)

\* Script sources a client uploads: one that needs no device, one that
\* moves the stage, and one the scripting engine cannot parse.
Contents == {"print(42)", "stage.move_abs(5.0)", "stage.move_abs("}
Malformed(content) == content = "stage.move_abs("
Requires(content) == IF content = "print(42)" THEN "none" ELSE "stage"

\* Ids, written as a kind and a serial number; the empty string is <<>>.
ScriptId(n) == <<"script", n>>
ExecutionId(n) == <<"exec", n>>
IsKnownScript(id) == \E i \in 1..Len(scripts) : scripts[i].script_id = id
IsKnownExecution(id) == \E i \in 1..Len(execs) : execs[i].execution_id = id
ScriptOf(id) == scripts[CHOOSE i \in 1..Len(scripts) : scripts[i].script_id = id]
IndexOf(id) == CHOOSE i \in 1..Len(execs) : execs[i].execution_id = id

Terminal == {"COMPLETED", "ERROR"}

\* The exclusive resource the script of execution e needs is in use by e.
Holds(e, resource) ==
    /\ e.state = "RUNNING"
    /\ resource # "none"
    /\ Requires(ScriptOf(e.script_id).content) = resource

Busy(resource) == \E i \in 1..Len(execs) : Holds(execs[i], resource)

\* UploadScript: the response.
UploadScript(content, name) ==
    IF Malformed(content)
    THEN [success |-> FALSE, script_id |-> <<>>,
          error_message |-> "parse error"]
    ELSE [success |-> TRUE, script_id |-> ScriptId(Len(scripts) + 1),
          error_message |-> ""]

\* StartScript: the response.
StartScript(script_id) ==
    IF ~IsKnownScript(script_id) \/ Busy(Requires(ScriptOf(script_id).content))
    THEN [started |-> FALSE, execution_id |-> <<>>]
    ELSE [started |-> TRUE, execution_id |-> ExecutionId(Len(execs) + 1)]

\* The execution StartScript creates: it leaves IDLE for RUNNING at once.
NewExecution(script_id) ==
    [execution_id |-> ExecutionId(Len(execs) + 1), script_id |-> script_id,
     state |-> "RUNNING", error_message |-> "",
     start_time_ns |-> clock + 1, end_time_ns |-> 0,
     path |-> <<"IDLE", "RUNNING">>]

\* Execution e after it reached a terminal state at time now.
Ended(e, state, now) ==
    [e EXCEPT !.state = state,
              !.error_message = IF state = "ERROR" THEN "script failed" ELSE "",
              !.end_time_ns = now,
              !.path = Append(e.path, state)]

\* GetScriptStatus: the response for a known execution.
GetScriptStatus(execution_id) ==
    LET e == execs[IndexOf(execution_id)] IN
    [execution_id |-> e.execution_id, state |-> e.state,
     error_message |-> e.error_message, start_time_ns |-> e.start_time_ns,
     end_time_ns |-> e.end_time_ns]

\* StopScript: the response.
StopScript(execution_id) ==
    [stopped |-> /\ IsKnownExecution(execution_id)
                 /\ execs[IndexOf(execution_id)].state = "RUNNING"]

\* A running script comes to its end, well or not.
Script_ends(i, state) ==
    /\ i \in 1..Len(execs)
    /\ execs[i].state = "RUNNING"
    /\ execs' = [execs EXCEPT ![i] = Ended(execs[i], state, clock + 1)]
    /\ clock' = clock + 1
    /\ UNCHANGED <<config, wrapVars, genVars, pureVars, scripts, reply>>

----------------------------------------------------------------------------
(* DaqClient: the control calls.  net says whether the request gets an     *)
(* answer ("ok") or the call raises grpc.RpcError ("unavailable").         *)

\* Outcome of a control call: the method and its argument, whether it
\* returned or raised RuntimeError, the value or message, and the requests
\* it sent.
Reply(op, arg, out, val, requests) ==
    [op |-> op, arg |-> arg, out |-> out, val |-> val, requests |-> requests]
NoReply == Reply("none", None, "none", None, <<>>)

\* The text of a RuntimeError: what failed, and the detail put after it
\* (e.details(), response.error_message, the value of response.started).
Message(text, detail) == <<text, detail>>

Nets == {"ok", "unavailable"}

\* DaqClient.upload_script that does not look at response.success.
DaqClient_upload_script_ignores_success(content, name, net) ==
    LET request == <<"UploadScript", content, name>>
        response == UploadScript(content, name)
    IN  /\ (net = "ok" /\ response.success) => Len(scripts) < MaxScripts
        /\ IF net # "ok"
           THEN /\ reply' = Reply("upload_script", content, "RuntimeError",
                                  Message("gRPC error during upload", net),
                                  <<request>>)
                /\ UNCHANGED scripts
           ELSE /\ reply' = Reply("upload_script", content, "return",
                                  response.script_id, <<request>>)
                /\ IF response.success
                   THEN scripts' = Append(scripts,
                                     [script_id |-> response.script_id,
                                      content |-> content, name |-> name])
                   ELSE UNCHANGED scripts
        /\ UNCHANGED <<config, wrapVars, genVars, pureVars, execs, clock>>

\* DaqClient.upload_script that returns the name it was given in place of
\* response.script_id (as an id, the name is <<name>>).
DaqClient_upload_script_returns_name(content, name, net) ==
    LET request == <<"UploadScript", content, name>>
        response == UploadScript(content, name)
    IN  /\ (net = "ok" /\ response.success) => Len(scripts) < MaxScripts
        /\ IF net # "ok"
           THEN /\ reply' = Reply("upload_script", content, "RuntimeError",
                                  Message("gRPC error during upload", net),
                                  <<request>>)
                /\ UNCHANGED scripts
           ELSE IF ~response.success
           THEN /\ reply' = Reply("upload_script", content, "RuntimeError",
                                  Message("Upload failed", response.error_message),
                                  <<request>>)
                /\ UNCHANGED scripts
           ELSE /\ reply' = Reply("upload_script", content, "return",
                                  <<name>>, <<request>>)
                /\ scripts' = Append(scripts,
                                     [script_id |-> response.script_id,
                                      content |-> content, name |-> name])
        /\ UNCHANGED <<config, wrapVars, genVars, pureVars, execs, clock>>

DaqClient_upload_script(content, name, net) ==
    LET request == <<"UploadScript", content, name>>
        response == UploadScript(content, name)
    IN  /\ (net = "ok" /\ response.success) => Len(scripts) < MaxScripts
        /\ IF net # "ok"
           THEN /\ reply' = Reply("upload_script", content, "RuntimeError",
                                  Message("gRPC error during upload", net),
                                  <<request>>)
                /\ UNCHANGED scripts
           ELSE IF ~response.success
           THEN /\ reply' = Reply("upload_script", content, "RuntimeError",
                                  Message("Upload failed", response.error_message),
                                  <<request>>)
                /\ UNCHANGED scripts
           ELSE /\ reply' = Reply("upload_script", content, "return",
                                  response.script_id, <<request>>)
                /\ scripts' = Append(scripts,
                                     [script_id |-> response.script_id,
                                      content |-> content, name |-> name])
        /\ UNCHANGED <<config, wrapVars, genVars, pureVars, execs, clock>>

\* DaqClient.start_script that hands back the id of the script in place of
\* the id of the execution.
DaqClient_start_script_returns_script(script_id, net) ==
    LET request == <<"StartScript", script_id>>
        response == StartScript(script_id)
    IN  /\ (net = "ok" /\ response.started) => Len(execs) < MaxExecs
        /\ IF net # "ok"
           THEN /\ reply' = Reply("start_script", script_id, "RuntimeError",
                                  Message("gRPC error during start", net),
                                  <<request>>)
                /\ UNCHANGED <<execs, clock>>
           ELSE IF ~response.started
           THEN /\ reply' = Reply("start_script", script_id, "RuntimeError",
                                  Message("Start failed", "started=False"), <<request>>)
                /\ UNCHANGED <<execs, clock>>
           ELSE /\ reply' = Reply("start_script", script_id, "return",
                                  script_id, <<request>>)
                /\ execs' = Append(execs, NewExecution(script_id))
                /\ clock' = clock + 1
        /\ UNCHANGED <<config, wrapVars, genVars, pureVars, scripts>>

\* DaqClient.start_script that does not look at response.started.
DaqClient_start_script_ignores_started(script_id, net) ==
    LET request == <<"StartScript", script_id>>
        response == StartScript(script_id)
    IN  /\ (net = "ok" /\ response.started) => Len(execs) < MaxExecs
        /\ IF net # "ok"
           THEN /\ reply' = Reply("start_script", script_id, "RuntimeError",
                                  Message("gRPC error during start", net),
                                  <<request>>)
                /\ UNCHANGED <<execs, clock>>
           ELSE /\ reply' = Reply("start_script", script_id, "return",
                                  response.execution_id, <<request>>)
                /\ IF response.started
                   THEN /\ execs' = Append(execs, NewExecution(script_id))
                        /\ clock' = clock + 1
                   ELSE UNCHANGED <<execs, clock>>
        /\ UNCHANGED <<config, wrapVars, genVars, pureVars, scripts>>

DaqClient_start_script(script_id, net) ==
    LET request == <<"StartScript", script_id>>
        response == StartScript(script_id)
    IN  /\ (net = "ok" /\ response.started) => Len(execs) < MaxExecs
        /\ IF net # "ok"
           THEN /\ reply' = Reply("start_script", script_id, "RuntimeError",
                                  Message("gRPC error during start", net),
                                  <<request>>)
                /\ UNCHANGED <<execs, clock>>
           ELSE IF ~response.started
           THEN /\ reply' = Reply("start_script", script_id, "RuntimeError",
                                  Message("Start failed", "started=False"), <<request>>)
                /\ UNCHANGED <<execs, clock>>
           ELSE /\ reply' = Reply("start_script", script_id, "return",
                                  response.execution_id, <<request>>)
                /\ execs' = Append(execs, NewExecution(script_id))
                /\ clock' = clock + 1
        /\ UNCHANGED <<config, wrapVars, genVars, pureVars, scripts>>

\* The dict get_status builds from the response.
StatusOf(response) ==
    [execution_id |-> response.execution_id, state |-> response.state,
     error |-> response.error_message, start_time |-> response.start_time_ns,
     end_time |-> response.end_time_ns]

\* DaqClient.get_status that takes the state from the times: IDLE while
\* there is no end time.
DaqClient_get_status_by_times(execution_id, net) ==
    LET request == <<"GetScriptStatus", execution_id>>
    IN  /\ IF net # "ok" \/ ~IsKnownExecution(execution_id)
           THEN reply' = Reply("get_status", execution_id, "RuntimeError",
                               Message("gRPC error getting status", net),
                               <<request>>)
           ELSE LET response == GetScriptStatus(execution_id) IN
                reply' = Reply("get_status", execution_id, "return",
                           [StatusOf(response) EXCEPT !.state =
                               IF response.end_time_ns = 0 THEN "IDLE"
                               ELSE response.state],
                           <<request>>)
        /\ UNCHANGED <<config, wrapVars, genVars, pureVars, scripts, execs,
                       clock>>

\* DaqClient.get_status that shares the stream's connection and has to wait
\* until the read a consumer is suspended in has been answered.
DaqClient_get_status_after_events(execution_id, net) ==
    LET request == <<"GetScriptStatus", execution_id>>
    IN  /\ \A s \in Subs : awaiting[s] = 0
        /\ IF net # "ok" \/ ~IsKnownExecution(execution_id)
           THEN reply' = Reply("get_status", execution_id, "RuntimeError",
                               Message("gRPC error getting status", net),
                               <<request>>)
           ELSE reply' = Reply("get_status", execution_id, "return",
                               StatusOf(GetScriptStatus(execution_id)),
                               <<request>>)
        /\ UNCHANGED <<config, wrapVars, genVars, pureVars, scripts, execs,
                       clock>>

\* DaqClient.get_status that puts each of the two times under the other's
\* key.
DaqClient_get_status_swaps_times(execution_id, net) ==
    LET request == <<"GetScriptStatus", execution_id>>
    IN  /\ IF net # "ok" \/ ~IsKnownExecution(execution_id)
           THEN reply' = Reply("get_status", execution_id, "RuntimeError",
                               Message("gRPC error getting status", net),
                               <<request>>)
           ELSE LET response == GetScriptStatus(execution_id) IN
                reply' = Reply("get_status", execution_id, "return",
                           [StatusOf(response) EXCEPT
                               !.start_time = response.end_time_ns,
                               !.end_time = response.start_time_ns],
                           <<request>>)
        /\ UNCHANGED <<config, wrapVars, genVars, pureVars, scripts, execs,
                       clock>>

\* DaqClient.get_status that swallows the daemon's error for an unknown id
\* and returns an empty status in state IDLE.
DaqClient_get_status_silent_idle(execution_id, net) ==
    LET request == <<"GetScriptStatus", execution_id>>
    IN  /\ IF net # "ok"
           THEN reply' = Reply("get_status", execution_id, "RuntimeError",
                               Message("gRPC error getting status", net),
                               <<request>>)
           ELSE IF ~IsKnownExecution(execution_id)
           THEN reply' = Reply("get_status", execution_id, "return",
                               [execution_id |-> execution_id, state |-> "IDLE",
                                error |-> "", start_time |-> 0, end_time |-> 0],
                               <<request>>)
           ELSE reply' = Reply("get_status", execution_id, "return",
                               StatusOf(GetScriptStatus(execution_id)),
                               <<request>>)
        /\ UNCHANGED <<config, wrapVars, genVars, pureVars, scripts, execs,
                       clock>>

\* GetScriptStatus on an id the daemon does not know is an error of the
\* call, which reaches the client as grpc.RpcError.
DaqClient_get_status(execution_id, net) ==
    LET request == <<"GetScriptStatus", execution_id>>
    IN  /\ IF net # "ok" \/ ~IsKnownExecution(execution_id)
           THEN reply' = Reply("get_status", execution_id, "RuntimeError",
                               Message("gRPC error getting status", net),
                               <<request>>)
           ELSE reply' = Reply("get_status", execution_id, "return",
                               StatusOf(GetScriptStatus(execution_id)),
                               <<request>>)
        /\ UNCHANGED <<config, wrapVars, genVars, pureVars, scripts, execs,
                       clock>>

\* DaqClient.stop_script that sends the request a second time when the
\* first attempt ends in grpc.RpcError.
DaqClient_stop_script_retries(execution_id, net, effect) ==
    LET request == <<"StopScript", execution_id>>
        response == StopScript(execution_id)
        sent == IF net # "ok" THEN <<request, request>> ELSE <<request>>
    IN  /\ reply' = Reply("stop_script", execution_id, "return",
                          response.stopped, sent)
        /\ IF response.stopped /\ effect # "RUNNING"
           THEN /\ execs' = [execs EXCEPT ![IndexOf(execution_id)] =
                                Ended(@, effect, clock + 1)]
                /\ clock' = clock + 1
           ELSE /\ effect = "RUNNING"
                /\ UNCHANGED <<execs, clock>>
        /\ UNCHANGED <<config, wrapVars, genVars, pureVars, scripts>>

\* DaqClient.stop_script that raises when the response has stopped=false,
\* as start_script does for started=false.
DaqClient_stop_script_raises_unstopped(execution_id, net, effect) ==
    LET request == <<"StopScript", execution_id>>
        response == StopScript(execution_id)
    IN  /\ IF net # "ok"
           THEN /\ reply' = Reply("stop_script", execution_id, "RuntimeError",
                                  Message("gRPC error stopping script", net),
                                  <<request>>)
                /\ effect = "RUNNING"
                /\ UNCHANGED <<execs, clock>>
           ELSE IF ~response.stopped
           THEN /\ reply' = Reply("stop_script", execution_id, "RuntimeError",
                                  Message("Stop failed", "stopped=False"), <<request>>)
                /\ effect = "RUNNING"
                /\ UNCHANGED <<execs, clock>>
           ELSE /\ reply' = Reply("stop_script", execution_id, "return",
                                  response.stopped, <<request>>)
                /\ IF effect # "RUNNING"
                   THEN /\ execs' = [execs EXCEPT ![IndexOf(execution_id)] =
                                        Ended(@, effect, clock + 1)]
                        /\ clock' = clock + 1
                   ELSE UNCHANGED <<execs, clock>>
        /\ UNCHANGED <<config, wrapVars, genVars, pureVars, scripts>>

\* effect is what the daemon makes of stopping a running script: it ends
\* at once (COMPLETED or ERROR) or goes on running for a while.
DaqClient_stop_script(execution_id, net, effect) ==
    LET request == <<"StopScript", execution_id>>
        response == StopScript(execution_id)
    IN  /\ IF net # "ok"
           THEN /\ reply' = Reply("stop_script", execution_id, "RuntimeError",
                                  Message("gRPC error stopping script", net),
                                  <<request>>)
                /\ effect = "RUNNING"
                /\ UNCHANGED <<execs, clock>>
           ELSE /\ reply' = Reply("stop_script", execution_id, "return",
                                  response.stopped, <<request>>)
                /\ IF response.stopped /\ effect # "RUNNING"
                   THEN /\ execs' = [execs EXCEPT ![IndexOf(execution_id)] =
                                        Ended(@, effect, clock + 1)]
                        /\ clock' = clock + 1
                   ELSE /\ effect = "RUNNING"
                        /\ UNCHANGED <<execs, clock>>
        /\ UNCHANGED <<config, wrapVars, genVars, pureVars, scripts>>

----------------------------------------------------------------------------
(* examples/basic_usage.py: main() uploads a script, starts it and polls   *)
(* its status until it ended or max_wait seconds went by.  Time passes in  *)
(* time.sleep(0.5) only; the daemon answers every call.                    *)

\* The script of the example: it moves the stage and triggers the camera.
ExampleScript == "stage.move_abs(5.0)"

\* max_wait, in seconds, and the sleeps of 0.5 s that make up one second.
max_wait == 10
SleepsPerSecond == 2

\* What main() does after a call: go on, or leave through except
\* RuntimeError.
After(r, pc) == IF r.out = "return" THEN pc ELSE "error"

Main_upload ==
    /\ main.pc = "upload"
    /\ DaqClient_upload_script(ExampleScript, "basic_experiment", "ok")
    /\ main' = [main EXCEPT !.pc = After(reply', "start")]

Main_start ==
    /\ main.pc = "start"
    /\ DaqClient_start_script(reply.val, "ok")
    /\ main' = [pc |-> After(reply', "poll"), waited |-> 0,
                exec_id |-> IF reply'.out = "return" THEN Some(reply'.val)
                            ELSE None]

\* One round of the while loop up to break or time.sleep.
Main_poll ==
    /\ main.pc = "poll"
    /\ main.waited < max_wait * SleepsPerSecond
    /\ DaqClient_get_status(main.exec_id[1], "ok")
    /\ main' = [main EXCEPT !.pc =
                  IF reply'.out # "return" THEN "error"
                  ELSE IF reply'.val.state \in {"COMPLETED", "ERROR"}
                  THEN "done" ELSE "sleep"]

Main_sleep ==
    /\ main.pc = "sleep"
    /\ main' = [main EXCEPT !.pc = "poll", !.waited = @ + 1]
    /\ UNCHANGED <<config, wrapVars, genVars, pureVars, ctlVars>>

\* The else branch of the while loop: "Timeout waiting for completion".
Main_timeout ==
    /\ main.pc = "poll"
    /\ main.waited >= max_wait * SleepsPerSecond
    /\ main' = [main EXCEPT !.pc = "timeout"]
    /\ UNCHANGED <<config, wrapVars, genVars, pureVars, ctlVars>>

\* The user interrupts main() (Ctrl-C) inside the try statement: the
\* KeyboardInterrupt ends whatever main() was doing, a sleep or a call, and
\* is caught by except KeyboardInterrupt; no further call is made.  A call
\* that is interrupted while it waits for the reply never returns, so
\* nothing is assigned from it, but the daemon may have handled the
\* request already: the script is stored, or the execution started.
Main_interrupt ==
    /\ main.pc \in {"upload", "start", "poll", "sleep", "done", "timeout"}
    /\ main' = [main EXCEPT !.pc = "interrupted"]
    /\ \/ UNCHANGED <<scripts, execs, clock>>
       \/ /\ main.pc = "upload"
          /\ UploadScript(ExampleScript, "basic_experiment").success
          /\ Len(scripts) < MaxScripts
          /\ scripts' = Append(scripts,
                 [script_id |->
                      UploadScript(ExampleScript, "basic_experiment").script_id,
                  content |-> ExampleScript, name |-> "basic_experiment"])
          /\ UNCHANGED <<execs, clock>>
       \/ /\ main.pc = "start"
          /\ StartScript(reply.val).started
          /\ Len(execs) < MaxExecs
          /\ execs' = Append(execs, NewExecution(reply.val))
          /\ clock' = clock + 1
          /\ UNCHANGED scripts
    /\ UNCHANGED <<config, wrapVars, genVars, pureVars, reply>>

\* The finally clause: however the try statement is left, after the loop
\* ("Example complete!"), through except RuntimeError or through except
\* KeyboardInterrupt, main() closes the client and returns.
Main_close ==
    /\ main.pc \in {"done", "timeout", "error", "interrupted"}
    /\ DaqClient_close
    /\ main' = [main EXCEPT !.pc = "disconnected"]

\* The user interrupts main() in the finally clause before client.close()
\* has run: main() ends with KeyboardInterrupt and the channel stays open.
Main_abort ==
    /\ main.pc \in {"done", "timeout", "error", "interrupted"}
    /\ main' = [main EXCEPT !.pc = "aborted"]
    /\ UNCHANGED <<config, wrapVars, genVars, pureVars, ctlVars>>

Main_step ==
    \/ Main_upload
    \/ Main_start
    \/ Main_poll
    \/ Main_sleep
    \/ Main_timeout
    \/ Main_interrupt
    \/ Main_close
    \/ Main_abort

----------------------------------------------------------------------------
ExitCauses == {"none", "exception", "cancelled"}
Outcomes == {"event", "end", "fail"}
CallbackResults == {"ok", "raise"}

Payloads == {"scalar", "image", "none"}

Next ==
    \/ FrameStream_aenter
    \/ \E exc \in ExitCauses : FrameStream_aexit(exc)
    \/ FrameStream_anext
    \/ \E o \in Outcomes, cb \in CallbackResults : FrameStream_anext_resume(o, cb)
    \/ ParameterSubscription_aenter
    \/ \E exc \in ExitCauses : ParameterSubscription_aexit(exc)
    \/ ParameterSubscription_anext
    \/ \E o \in Outcomes, cb \in CallbackResults :
           ParameterSubscription_anext_resume(o, cb)
    \/ DeviceStateStream_aenter
    \/ \E exc \in ExitCauses : DeviceStateStream_aexit(exc)
    \/ DeviceStateStream_anext
    \/ \E o \in Outcomes : DeviceStateStream_anext_resume(o)

\* Runs with one wrapper, and runs with two wrappers open on one client;
\* the two are given one choice of filter arguments, and no cap or a cap
\* of one frame.
NoDecoding == self_frame = None /\ numpy = TRUE /\ array = NoArray

\* main() of the example is not running.
NoMain == [pc |-> "none", waited |-> 0, exec_id |-> None]

\* The daemon has just started and no control call was made.
NoControl ==
    /\ scripts = <<>>
    /\ execs = <<>>
    /\ clock = 0
    /\ reply = NoReply
    /\ main = NoMain

Init == Constructed(1) /\ NoDecoding /\ NoControl
InitPair ==
    /\ Constructed(2)
    /\ NoDecoding
    /\ NoControl
    /\ max_frames \in {None, Some(1)}
    /\ device_id = Some(ParamDevice)
    /\ parameter_names = Some(ParamNames)
    /\ max_rate_hz = 10
    /\ include_snapshot

Spec == Init /\ [][Next]_vars
SpecPair == InitPair /\ [][Next]_vars

RpcResults == Outcomes \cup {"closed"}

NextClient ==
    \/ DaqClient_stream_status
    \/ \E o \in RpcResults : stream_status_next(o)
    \/ DaqClient_stream_measurements
    \/ \E o \in RpcResults, pl \in Payloads : stream_measurements_next(o, pl)
    \/ DaqClient_close /\ UNCHANGED main
    \/ Connection_fails

SpecClient == Init /\ [][NextClient]_vars

\* Runs of one ParameterSubscription whose consumer converts the values of
\* the changes it is handed.
InitParam == Constructed(1) /\ objs = {P} /\ NoDecoding /\ NoControl

NextParam ==
    \/ ParameterSubscription_aenter
    \/ \E exc \in ExitCauses : ParameterSubscription_aexit(exc)
    \/ ParameterSubscription_anext
    \/ \E o \in Outcomes, cb \in CallbackResults :
           ParameterSubscription_anext_resume(o, cb)
    \/ ParameterChange_old_as_float
    \/ ParameterChange_new_as_float

SpecParam == InitParam /\ [][NextParam]_vars

\* Runs of the control calls against the daemon.
ScriptIdArgs == {ScriptId(n) : n \in 0..MaxScripts}
ExecutionIdArgs == {ExecutionId(n) : n \in 0..MaxExecs}
StopEffects == {"RUNNING", "COMPLETED", "ERROR"}

InitControl == Constructed(0) /\ NoDecoding /\ NoControl

NextControl ==
    \/ \E c \in Contents, net \in Nets :
           DaqClient_upload_script(c, "experiment", net) /\ UNCHANGED main
    \/ \E id \in ScriptIdArgs, net \in Nets :
           DaqClient_start_script(id, net) /\ UNCHANGED main
    \/ \E id \in ExecutionIdArgs, net \in Nets :
           DaqClient_get_status(id, net) /\ UNCHANGED main
    \/ \E id \in ExecutionIdArgs, net \in Nets, effect \in StopEffects :
           DaqClient_stop_script(id, net, effect) /\ UNCHANGED main
    \/ \E i \in 1..MaxExecs, state \in Terminal :
           Script_ends(i, state) /\ UNCHANGED main

SpecControl == InitControl /\ [][NextControl]_vars

\* Runs of main() of the example against the daemon, which runs the script
\* to its end; main() goes on as long as it can and the script ends.
InitPoll ==
    /\ Constructed(0)
    /\ NoDecoding
    /\ scripts = <<>>
    /\ execs = <<>>
    /\ clock = 0
    /\ reply = NoReply
    /\ main = [NoMain EXCEPT !.pc = "upload"]

Daemon_step == \E state \in Terminal : Script_ends(1, state) /\ UNCHANGED main

NextPoll ==
    \/ Main_upload
    \/ Main_start
    \/ Main_poll
    \/ Main_sleep
    \/ Main_timeout
    \/ Main_interrupt
    \/ Main_close
    \/ Main_abort
    \/ Daemon_step

SpecPoll ==
    /\ InitPoll
    /\ [][NextPoll]_vars
    /\ WF_vars(Main_step)
    /\ WF_vars(Daemon_step)

\* Runs with one FrameStream, the generator of stream_status and the
\* control calls of one script and one execution, all answered by the
\* daemon.
InitOpen == Constructed(1) /\ objs = {F} /\ NoDecoding /\ NoControl

NextOpen ==
    \/ FrameStream_aenter
    \/ \E exc \in ExitCauses : FrameStream_aexit(exc)
    \/ FrameStream_anext
    \/ \E o \in Outcomes, cb \in CallbackResults : FrameStream_anext_resume(o, cb)
    \/ DaqClient_stream_status
    \/ \E o \in Outcomes : stream_status_next(o)
    \/ DaqClient_upload_script(ExampleScript, "experiment", "ok")
          /\ UNCHANGED main
    \/ execs = <<>> /\ DaqClient_start_script(ScriptId(1), "ok")
          /\ UNCHANGED main
    \/ DaqClient_get_status(ExecutionId(1), "ok") /\ UNCHANGED main
    \/ \E effect \in StopEffects :
          DaqClient_stop_script(ExecutionId(1), "ok", effect) /\ UNCHANGED main
    \/ \E state \in Terminal : Script_ends(1, state) /\ UNCHANGED main

SpecOpen == InitOpen /\ [][NextOpen]_vars

\* Runs with a FrameStream whose upstream never answers and a
\* ParameterSubscription beside it on the same client; the event loop
\* resumes the consumer of the ParameterSubscription whenever its upstream
\* has answered.
InitStalled == InitPair /\ objs = {F, P}

Sibling_resume ==
    \E o \in Outcomes, cb \in CallbackResults :
       ParameterSubscription_anext_resume(o, cb)

NextStalled ==
    \/ FrameStream_aenter
    \/ \E exc \in ExitCauses : FrameStream_aexit(exc)
    \/ FrameStream_anext
    \/ ParameterSubscription_aenter
    \/ \E exc \in ExitCauses : ParameterSubscription_aexit(exc)
    \/ ParameterSubscription_anext
    \/ Sibling_resume

SpecStalled ==
    /\ InitStalled
    /\ [][NextStalled]_vars
    /\ WF_vars(Sibling_resume)

\* Runs that construct one Frame and decode it, with and without numpy.
InitDecode ==
    /\ Constructed(0)
    /\ self_frame \in {Some(f) : f \in Frames}
    /\ numpy \in BOOLEAN
    /\ array = NoArray
    /\ NoControl

NextDecode == Frame_to_numpy

SpecDecode == InitDecode /\ [][NextDecode]_vars

----------------------------------------------------------------------------
(* The methods of wrapper s, whatever its class.                           *)

Aenter(s) ==
    CASE s = F -> FrameStream_aenter
      [] s = P -> ParameterSubscription_aenter
      [] OTHER -> DeviceStateStream_aenter

Aexit(s) ==
    CASE s = F -> \E exc \in ExitCauses : FrameStream_aexit(exc)
      [] s = P -> \E exc \in ExitCauses : ParameterSubscription_aexit(exc)
      [] OTHER -> \E exc \in ExitCauses : DeviceStateStream_aexit(exc)

Anext(s) ==
    CASE s = F -> FrameStream_anext
      [] s = P -> ParameterSubscription_anext
      [] OTHER -> DeviceStateStream_anext

\* __anext__ of s resumes with the upstream's answer.
Resume(s, outcome) ==
    CASE s = F -> \E cb \in CallbackResults :
                     FrameStream_anext_resume(outcome, cb)
      [] s = P -> \E cb \in CallbackResults :
                     ParameterSubscription_anext_resume(outcome, cb)
      [] OTHER -> DeviceStateStream_anext_resume(outcome)

----------------------------------------------------------------------------
(* Observations on the trace of a wrapper.                                 *)

\* Events __anext__ returned to the consumer since the latest __aenter__.
Returned(s) ==
    Cardinality({i \in 1..Len(trace[s]) : trace[s][i][1] = "ret"})

\* Callback invocations since the latest __aenter__.
Called(s) ==
    Cardinality({i \in 1..Len(trace[s]) : trace[s][i][1] = "cb"})

\* Events that were received but not returned because the callback raised.
Raised(s) ==
    Cardinality({i \in 1..Len(trace[s]) :
        /\ trace[s][i][1] = "cb"
        /\ (i = Len(trace[s]) \/ trace[s][i + 1][1] # "ret")})

\* The wrapper is inside a scope: entered and not closed since.
IsEntered(s) == phase[s] \in {"entered", "reentered"}

\* The wrapper was closed by __aexit__ and not entered again.
IsClosed(s) ==
    phase[s] \in {"closed", "closed_again", "closed_new", "closed_new_again"}

\* The upstream of the wrapper can still deliver an event.
UpstreamHasMore(s) ==
    /\ up[s] # None
    /\ up[s][1].status = "open"
    /\ up[s][1].pos < MaxEvents

StopRaised(s, why) == ret[s] = Ret("anext", "StopAsyncIteration", None, why)

\* The wrapper was given a callback.
HasCallback(s) == (s = F /\ on_frame) \/ (s = P /\ on_change)

\* The value the wrapper builds from the k-th event of its upstream.
EventOf(s, k) ==
    CASE s = F -> Frame(RawFrame(up[s][1], k))
      [] s = P -> ParameterChange(RawChange(up[s][1], k))
      [] OTHER -> RawUpdate(up[s][1], k)

IsCb(e) == e[1] = "cb"
CbEvents(s) == SelectSeq(trace[s], IsCb)

\* All the fields of wrapper b, its upstream and what its consumer saw.
SubState(b) ==
    <<active[b], count[b], iterator[b], awaiting[b], up[b], prior[b], ret[b],
      trace[b],
      phase[b], calls[b]>>

----------------------------------------------------------------------------
(* C1, as stated: whenever __anext__ of a FrameStream with max_frames = N, *)
(* N >= 1, stops at the cap, exactly N frames were returned to the         *)
(* consumer.                                                               *)
C1_ExactlyNReturned ==
    (F \in objs /\ Truthy(max_frames) /\ StopRaised(F, "cap"))
        => Returned(F) = max_frames[1]

(* C1, amended: with max_frames = N >= 1, frame_count never exceeds N;     *)
(* every frame received is returned unless on_frame raised for it; when    *)
(* __anext__ stops at the cap exactly N frames were received from the      *)
(* upstream (N returned when on_frame never raised); and every __anext__   *)
(* call made once N frames were received raises StopAsyncIteration and     *)
(* leaves the upstream, the counter and the delivered events untouched.    *)
C1_CapInv ==
    (F \in objs /\ Truthy(max_frames)) =>
        /\ count[F] <= max_frames[1]
        /\ Returned(F) <= max_frames[1]
        /\ Returned(F) + Raised(F) = count[F]
        /\ (~on_frame => Raised(F) = 0)
        /\ StopRaised(F, "cap") =>
              /\ count[F] = max_frames[1]
              /\ up[F][1].pos = max_frames[1]
              /\ (Raised(F) = 0 => Returned(F) = max_frames[1])

C1_CapStep ==
    (/\ Truthy(max_frames)
     /\ active[F] /\ iterator[F] # None
     /\ count[F] >= max_frames[1]
     /\ FrameStream_anext)
        => /\ StopRaised(F, "cap")'
           /\ UNCHANGED <<up, awaiting, count, trace, active, iterator>>

\* C1 (amended): the cap invariant in every state and the cap step in every
\* step.
C1_MaxFramesCap == []C1_CapInv /\ [][C1_CapStep]_vars

\* The cap of N >= 1 stopped the iteration after N returned frames while
\* the upstream could deliver one more.
C1_Witness ==
    /\ Truthy(max_frames)
    /\ StopRaised(F, "cap")
    /\ Returned(F) = max_frames[1]
    /\ UpstreamHasMore(F)

----------------------------------------------------------------------------
(* C2: once __aexit__ has run on a wrapper (of any of the three classes)   *)
(* and until the next __aenter__, the wrapper is inactive and holds no     *)
(* iterator, and every __anext__ call raises StopAsyncIteration, returns   *)
(* no event and pulls nothing from the upstream, also when the upstream    *)
(* could deliver more.                                                     *)
C2_ClosedInv ==
    \A s \in Subs :
        IsClosed(s) => ~active[s] /\ iterator[s] = None /\ awaiting[s] = 0

C2_ClosedStep ==
    \A s \in Subs :
        /\ (IsClosed(s) /\ Anext(s))
              => /\ StopRaised(s, "inactive")'
                 /\ UNCHANGED <<up, trace, count, awaiting, active, iterator>>
        /\ (IsClosed(s) /\ IsClosed(s)')
              => /\ trace'[s] = trace[s]
                 /\ up'[s] = up[s]
                 /\ ret'[s].out \in {"False", "StopAsyncIteration"}

\* C2: a closed wrapper stays inert in every state and every step.
C2_NoDeliveryAfterClose == []C2_ClosedInv /\ [][C2_ClosedStep]_vars

\* A closed wrapper that had delivered an event refused an __anext__ call
\* while its upstream could deliver more.
C2_Witness ==
    \E s \in Subs :
        /\ IsClosed(s)
        /\ StopRaised(s, "inactive")
        /\ Returned(s) >= 1
        /\ UpstreamHasMore(s)

----------------------------------------------------------------------------
(* C3: __aexit__ never raises and returns False; after it the wrapper is   *)
(* inactive, holds no iterator and its counter is unchanged; called on a   *)
(* wrapper that is already closed, or was never entered, it changes        *)
(* nothing of the wrapper.                                                 *)
C3_ExitStep ==
    \A s \in Subs :
        Aexit(s) =>
            /\ ret'[s] = Ret("aexit", "False", None, "none")
            /\ ~active'[s]
            /\ iterator'[s] = None
            /\ count'[s] = count[s]
            /\ ~IsEntered(s) =>
                  /\ active'[s] = active[s]
                  /\ iterator'[s] = iterator[s]
                  /\ UNCHANGED <<up, trace, awaiting>>

\* C3: every __aexit__ step is a harmless, idempotent close.
C3_CloseIdempotent == [][C3_ExitStep]_vars

\* __aexit__ ran a second time on a wrapper whose counter is not zero.
C3_Witness ==
    \E s \in Subs :
        /\ phase[s] = "closed_again"
        /\ ret[s].op = "aexit"
        /\ count[s] > 0

----------------------------------------------------------------------------
(* C4: after __aexit__ has run, the upstream stream the wrapper opened in  *)
(* __aenter__ is not left open.                                            *)
C4_ExitClosesUpstream ==
    \A s \in Subs :
        IsClosed(s) => (up[s] = None \/ up[s][1].status # "open")

----------------------------------------------------------------------------
(* C5: when __anext__ of a FrameStream stops at the max_frames cap, the    *)
(* stream is no longer active and its upstream stream is not left open.    *)
C5_CapClosesStream ==
    (F \in objs /\ StopRaised(F, "cap"))
        => (~active[F] /\ up[F][1].status # "open")

----------------------------------------------------------------------------
(* C6: a wrapper with a callback calls it exactly once for each event it   *)
(* received from the upstream, in upstream order and with that event; an   *)
(* event is returned to the consumer only directly after its own callback  *)
(* call, and no callback call for an event follows its return.  A wrapper  *)
(* without a callback makes no callback call.                              *)
C6_CallbackBeforeReturn ==
    \A s \in Subs :
        LET t == trace[s] IN
        IF HasCallback(s)
        THEN /\ Len(CbEvents(s)) = count[s]
             /\ up[s] # None => Len(CbEvents(s)) = up[s][1].pos
             /\ \A k \in 1..Len(CbEvents(s)) :
                    CbEvents(s)[k] = <<"cb", EventOf(s, k)>>
             /\ \A i \in 1..Len(t) :
                    t[i][1] = "ret" => (i > 1 /\ t[i - 1] = <<"cb", t[i][2]>>)
             /\ \A i \in 1..Len(t), j \in 1..Len(t) :
                    (i < j /\ t[i][1] = "ret") => t[j] # <<"cb", t[i][2]>>
        ELSE Called(s) = 0

\* Two events went through the callback and on to the consumer.
C6_Witness ==
    \E s \in Subs :
        /\ HasCallback(s)
        /\ Called(s) >= 2
        /\ Returned(s) >= 2

----------------------------------------------------------------------------
(* C7: a step that closes wrapper a (__aexit__), or in which a's upstream  *)
(* ends or fails, changes no field of any other wrapper b on the client,   *)
(* nor b's upstream, nor the arguments b was constructed with.             *)
C7_Step ==
    \A a \in objs : \A b \in objs \ {a} :
        \/ SubState(b)' = SubState(b) /\ UNCHANGED config
        \/ ~(Aexit(a) \/ Resume(a, "end") \/ Resume(a, "fail"))

\* C7: no close, end or failure of one wrapper changes another wrapper.
C7_SiblingsUntouched == [][C7_Step]_vars

\* Wrapper a is closed, or saw its upstream end or fail, and wrapper b is
\* active and was just handed an event.
C7_Witness ==
    \E a \in objs : \E b \in objs \ {a} :
        /\ Returned(a) >= 1
        /\ (IsClosed(a) \/ ret[a].why \in {"end", "fail"})
        /\ active[b]
        /\ ret[b].out = "event"

----------------------------------------------------------------------------
(* C8: on no stream does a failure of the connection reach the consumer    *)
(* as a clean end of iteration.                                            *)
C8_FailureDistinct ==
    /\ \A g \in Gens :
           seen[g].cause = "failed" => seen[g].out # "StopIteration"
    /\ \A s \in Subs :
           ret[s].why = "fail" => ret[s].out # "StopAsyncIteration"

----------------------------------------------------------------------------
(* C9: when the upstream answers the await of __anext__ with a failure,    *)
(* the failure reaches the consumer, the wrapper becomes inactive, its     *)
(* counter is unchanged and no event is delivered.                         *)
C9_FailStep ==
    \A s \in Subs :
        Resume(s, "fail") =>
            /\ ret'[s].out = "error"
            /\ ~active'[s]
            /\ count'[s] = count[s]
            /\ trace'[s] = trace[s]

\* C9: every upstream failure terminates the wrapper it reaches.
C9_FailureTerminates == [][C9_FailStep]_vars

----------------------------------------------------------------------------
(* C10: when the upstream ends normally, __anext__ raises                  *)
(* StopAsyncIteration, the wrapper becomes inactive and its counter and    *)
(* delivered events stay as they were; every later __anext__ call (until   *)
(* a new __aenter__) raises StopAsyncIteration and pulls nothing from the  *)
(* upstream.                                                               *)
EndedByServer(s) == IsEntered(s) /\ ~active[s]

C10_EndedInv ==
    \A s \in Subs :
        EndedByServer(s) =>
            /\ awaiting[s] = 0
            /\ StopRaised(s, "end") \/ StopRaised(s, "inactive")
            /\ up[s][1].status # "open"
            /\ count[s] = up[s][1].pos

C10_EndStep ==
    \A s \in Subs :
        /\ Resume(s, "end") =>
              /\ StopRaised(s, "end")'
              /\ ~active'[s]
              /\ count'[s] = count[s]
              /\ trace'[s] = trace[s]
        /\ (EndedByServer(s) /\ Anext(s)) =>
              /\ StopRaised(s, "inactive")'
              /\ UNCHANGED <<up, awaiting, count, trace, active, iterator>>

\* C10: a server-side end is clean in every state and every step.
C10_CleanEnd == []C10_EndedInv /\ [][C10_EndStep]_vars

\* After the server ended the stream, a further __anext__ call was refused
\* and the counter still shows the events delivered.
C10_Witness ==
    \E s \in Subs :
        /\ EndedByServer(s)
        /\ StopRaised(s, "inactive")
        /\ up[s][1].status = "ended"
        /\ count[s] >= 1
        /\ Returned(s) = count[s]

----------------------------------------------------------------------------
(* C11: every __aenter__ makes exactly one call on the client, the stream  *)
(* method of its class with the arguments the wrapper was constructed      *)
(* with, takes the new stream (nothing delivered yet, open) as its         *)
(* upstream and sets the counter to 0; and the events a wrapper received   *)
(* since its latest __aenter__ are the first events of the stream that     *)
(* __aenter__ opened, in order, so none comes from an earlier stream.      *)
StreamMethod(s) ==
    CASE s = F -> "stream_frames"
      [] s = P -> "stream_parameter_changes"
      [] OTHER -> "stream_device_state"

\* The arguments wrapper s was constructed with, as the stream method takes
\* them.
ConfiguredArgs(s) ==
    CASE s = F -> [device_id |-> FrameDevice, include_pixel_data |-> TRUE]
      [] s = P -> [device_id |-> device_id,
                   parameter_names |-> parameter_names]
      [] OTHER -> [device_ids |-> Some(StateDevices),
                   max_rate_hz |-> max_rate_hz,
                   include_snapshot |-> include_snapshot]

\* The events the wrapper received from its upstream since the latest
\* __aenter__: each is passed to the callback if there is one and is
\* returned otherwise.
IsRet(e) == e[1] = "ret"
Received(s) ==
    IF HasCallback(s) THEN CbEvents(s) ELSE SelectSeq(trace[s], IsRet)

C11_Inv ==
    \A s \in Subs :
        up[s] # None =>
            /\ up[s][1].args = ConfiguredArgs(s)
            /\ count[s] = up[s][1].pos
            /\ Len(Received(s)) = up[s][1].pos
            /\ \A k \in 1..Len(Received(s)) :
                   Received(s)[k][2] = EventOf(s, k)

C11_EnterStep ==
    \A s \in Subs :
        Aenter(s) =>
            /\ calls'[s] = <<ClientCall(StreamMethod(s), ConfiguredArgs(s))>>
            /\ up'[s] = Some(OpenStream(StreamMethod(s), s, ConfiguredArgs(s)))
            /\ iterator'[s] # None
            /\ active'[s]
            /\ count'[s] = 0
            /\ trace'[s] = <<>>

\* C11: every __aenter__ opens one new stream and starts over from it.
C11_FreshStream == []C11_Inv /\ [][C11_EnterStep]_vars

\* A wrapper that was entered again has returned the first event of the
\* stream its latest __aenter__ opened.
C11_Witness ==
    \E s \in Subs :
        /\ phase[s] = "reentered"
        /\ count[s] = 1
        /\ ret[s] = Ret("anext", "event", Some(EventOf(s, 1)), "event")

----------------------------------------------------------------------------
(* C12: the frames a FrameStream returned to its consumer since the latest *)
(* __aenter__ have strictly increasing frame_number values (all of one     *)
(* device), so none is returned twice.                                     *)
ReturnedEvents(s) == SelectSeq(trace[s], IsRet)

C12_FrameNumbersIncrease ==
    LET r == ReturnedEvents(F) IN
    \A i \in 1..Len(r), j \in 1..Len(r) :
        i < j => /\ r[i][2].frame_number < r[j][2].frame_number
                 /\ r[i][2].device_id = r[j][2].device_id

\* Two frames were returned on one subscription.
C12_Witness ==
    /\ Len(ReturnedEvents(F)) >= 2
    /\ ret[F].out = "event"

----------------------------------------------------------------------------
(* C13: every event a ParameterSubscription received since __aenter__      *)
(* (passed to on_change or returned) has the device_id the subscription    *)
(* was constructed with, if it was given one, and a name of its            *)
(* parameter_names, if it was given any; a subscription without filters    *)
(* receives every event the daemon publishes.                              *)
InNames(name, names) == \E i \in 1..Len(names) : names[i] = name

C13_FiltersHold ==
    \A i \in 1..Len(trace[P]) :
        LET e == trace[P][i][2] IN
        /\ device_id # None => e.device_id = device_id[1]
        /\ parameter_names # None => InNames(e.name, parameter_names[1])
        /\ (device_id = None /\ parameter_names = None) =>
               \E k \in 1..MaxEvents :
                   e = ParameterChange(
                           ChangeFeed(k)[((k - 1) % Len(ChangeFeed(k))) + 1])

\* A subscription filtered by device only returned two events of that
\* device with different names.
C13_Witness ==
    LET r == ReturnedEvents(P) IN
    /\ device_id = Some(ParamDevice)
    /\ parameter_names = None
    /\ Len(r) >= 2
    /\ r[1][2].name # r[2][2].name
    /\ r[1][2].device_id = ParamDevice

----------------------------------------------------------------------------
(* C14: for a DeviceStateStream constructed with include_snapshot = True,  *)
(* the first update returned since __aenter__ has is_snapshot = True and   *)
(* every later one has is_snapshot = False.                                *)
C14_SnapshotFirst ==
    LET r == ReturnedEvents(D) IN
    include_snapshot =>
        \A k \in 1..Len(r) : r[k][2].is_snapshot <=> (k = 1)

\* A stream that asked for the snapshot returned it first and a delta next.
C14_Witness ==
    LET r == ReturnedEvents(D) IN
    /\ D \in objs
    /\ include_snapshot
    /\ Len(r) >= 2
    /\ r[1][2].is_snapshot
    /\ ~r[2][2].is_snapshot

----------------------------------------------------------------------------
(* C15: a DeviceStateStream passes max_rate_hz on to the server as it was  *)
(* given and, whatever its value, returns every update its upstream        *)
(* delivered, once and in upstream order: the updates returned since       *)
(* __aenter__ are the first update_count updates of the upstream, and      *)
(* update_count is the number the upstream delivered.                      *)
C15_NoLocalThrottle ==
    LET r == ReturnedEvents(D) IN
    up[D] # None =>
        /\ up[D][1].args.max_rate_hz = max_rate_hz
        /\ Len(r) = up[D][1].pos
        /\ count[D] = Len(r)
        /\ \A k \in 1..Len(r) : r[k][2] = RawUpdate(up[D][1], k)

\* With max_rate_hz = 1, two updates were delivered by the upstream and
\* both were returned.
C15_Witness ==
    /\ D \in objs
    /\ max_rate_hz = 1
    /\ up[D] # None
    /\ up[D][1].pos >= 2
    /\ count[D] = up[D][1].pos
    /\ ret[D].out = "event"

----------------------------------------------------------------------------
(* C16: __anext__ of a ParameterSubscription converts nothing: it returns  *)
(* old_value and new_value as the strings the upstream sent, numbers or    *)
(* not, and raises no parse error.  old_as_float / new_as_float raise      *)
(* ValueError exactly when the string is not a number that float()         *)
(* accepts, on every call, and change neither the ParameterChange nor the  *)
(* subscription.                                                           *)
C16_Step ==
    /\ Resume(P, "event") =>
          /\ conv' = conv
          /\ ret'[P].out \in {"event", "callback_error"}
          /\ ret'[P].out = "event" =>
                 LET raw == RawChange(up[P][1], up[P][1].pos + 1) IN
                 /\ ret'[P].val[1].old_value = raw.old_value
                 /\ ret'[P].val[1].new_value = raw.new_value
    /\ ParameterChange_old_as_float =>
          /\ conv'.op = "old_as_float"
          /\ conv'.out = "ValueError" <=> ~IsFloatLiteral(HeldChange.old_value)
          /\ conv'.out = "float" <=> IsFloatLiteral(HeldChange.old_value)
          /\ UNCHANGED <<config, wrapVars>>
    /\ ParameterChange_new_as_float =>
          /\ conv'.op = "new_as_float"
          /\ conv'.out = "ValueError" <=> ~IsFloatLiteral(HeldChange.new_value)
          /\ conv'.out = "float" <=> IsFloatLiteral(HeldChange.new_value)
          /\ UNCHANGED <<config, wrapVars>>

\* C16: parsing is left to the caller and fails only there.
C16_LazyParse == [][C16_Step]_vars

\* A change whose values are not numbers was returned, and new_as_float on
\* it raised ValueError.
C16_Witness ==
    /\ ret[P].out = "event"
    /\ ~IsFloatLiteral(HeldChange.old_value)
    /\ ~IsFloatLiteral(HeldChange.new_value)
    /\ conv = Conversion("new_as_float", float(HeldChange.new_value))
    /\ conv.out = "ValueError"

----------------------------------------------------------------------------
(* C17 and C18 are about the Frame to_numpy was called on.                 *)
Decoded == self_frame # None /\ array # NoArray

\* The frame has pixel data of exactly width * height items of its format.
ExactBuffer(f) ==
    /\ f.pixel_format \in Formats
    /\ f.pixel_data # None
    /\ Len(f.pixel_data[1]) = f.width * f.height * ItemSize(f.pixel_format)

\* The array has height rows of width items, item (r, c) being the item of
\* the buffer at offset (r - 1) * width + (c - 1).
RowMajorArray(f, a) ==
    /\ a.out = "ndarray"
    /\ a.shape = <<f.height, f.width>>
    /\ Len(a.rows) = f.height
    /\ \A r \in 1..f.height :
           /\ Len(a.rows[r]) = f.width
           /\ \A c \in 1..f.width :
                  a.rows[r][c] =
                      Item(f.pixel_format, f.pixel_data[1],
                           ((r - 1) * f.width + (c - 1))
                               * ItemSize(f.pixel_format) + 1)

(* C17, as stated: for each of the four formats and all width, height >= 1 *)
(* to_numpy on a buffer of exactly width * height * item size bytes        *)
(* succeeds and returns the height x width row-major array.                *)
C17_DecodeSucceeds ==
    (/\ Decoded
     /\ self_frame[1].width >= 1 /\ self_frame[1].height >= 1
     /\ ExactBuffer(self_frame[1]))
        => RowMajorArray(self_frame[1], array)

(* C17, amended: the same where numpy can be imported; where it cannot,    *)
(* to_numpy raises ImportError for every frame.                            *)
C17_DecodeSucceedsWithNumpy ==
    /\ (/\ Decoded
        /\ numpy
        /\ self_frame[1].width >= 1 /\ self_frame[1].height >= 1
        /\ ExactBuffer(self_frame[1]))
           => RowMajorArray(self_frame[1], array)
    /\ (Decoded /\ ~numpy) => array.out = "ImportError"

\* A 2 x 2 big-endian 16-bit frame was decoded.
C17_Witness ==
    /\ Decoded
    /\ numpy
    /\ self_frame[1].width = 2 /\ self_frame[1].height = 2
    /\ self_frame[1].pixel_format = "u16_be"
    /\ ExactBuffer(self_frame[1])
    /\ array.out = "ndarray"
    /\ array.rows[2][1] # array.rows[1][2]

----------------------------------------------------------------------------
(* C18, as stated: to_numpy raises an error, and returns no array, when    *)
(* the frame has no pixel data, when its format is none of the four, or    *)
(* when the length of its pixel data is not width * height * item size.    *)
C18_DecodeFails ==
    (Decoded /\ ~ExactBuffer(self_frame[1]))
        => array.out \in {"ImportError", "ValueError"}

(* C18, amended: to_numpy raises an error when the frame has no pixel      *)
(* data, when its format is none of the four, and, for width and height    *)
(* >= 0, when the length of its pixel data is not width * height * item    *)
(* size (a width or height of -1 is inferred from the length instead).     *)
(* An array it returns holds every item of the buffer once, in buffer      *)
(* order, and to_numpy never changes the Frame.                            *)
DecodeErrors == {"ImportError", "ValueError"}

C18_Inv ==
    Decoded =>
        LET f == self_frame[1] IN
        /\ array.out \in DecodeErrors \cup {"ndarray"}
        /\ f.pixel_data = None => array.out \in DecodeErrors
        /\ f.pixel_format \notin Formats => array.out \in DecodeErrors
        /\ (f.width >= 0 /\ f.height >= 0 /\ ~ExactBuffer(f))
               => array.out \in DecodeErrors
        /\ array.out = "ndarray" =>
               /\ array.shape[1] * array.shape[2] * ItemSize(f.pixel_format)
                      = Len(f.pixel_data[1])
               /\ \A r \in 1..array.shape[1], c \in 1..array.shape[2] :
                      array.rows[r][c] =
                          Item(f.pixel_format, f.pixel_data[1],
                               ((r - 1) * array.shape[2] + (c - 1))
                                   * ItemSize(f.pixel_format) + 1)

C18_FrameKept == Frame_to_numpy => self_frame' = self_frame

\* C18 (amended): a wrong buffer is an error unless a dimension is -1.
C18_DecodeFailsOrInfers == []C18_Inv /\ [][C18_FrameKept]_vars

\* With numpy, a 16-bit frame whose buffer is one byte too long was
\* refused.
C18_Witness ==
    /\ Decoded
    /\ numpy
    /\ self_frame[1].pixel_format = "u16_le"
    /\ self_frame[1].width = 2 /\ self_frame[1].height = 1
    /\ self_frame[1].pixel_data # None
    /\ Len(self_frame[1].pixel_data[1]) = 5
    /\ array.out = "ValueError"


----------------------------------------------------------------------------
\* The state sequences an execution may have gone through so far.
StatePaths ==
    {<<"IDLE", "RUNNING">>, <<"IDLE", "RUNNING", "COMPLETED">>,
     <<"IDLE", "RUNNING", "ERROR">>}

\* reply is what get_status(execution_id) returned.
IsStatus(r) == r.op = "get_status" /\ r.out = "return"

C19_Inv ==
    /\ \A i \in 1..Len(execs) :
          /\ execs[i].path \in StatePaths
          /\ execs[i].state = execs[i].path[Len(execs[i].path)]
    /\ IsStatus(reply) =>
          \E k \in 1..Len(execs[IndexOf(reply.arg)].path) :
             execs[IndexOf(reply.arg)].path[k] = reply.val.state

C19_Step ==
    /\ Len(execs') >= Len(execs)
    /\ \A i \in 1..Len(execs) :
          /\ execs[i].state \in Terminal => execs'[i].state = execs[i].state
          /\ \/ execs'[i].path = execs[i].path
             \/ /\ execs'[i].state \in Terminal
                /\ execs'[i].path = Append(execs[i].path, execs'[i].state)
    /\ (IsStatus(reply') /\ reply' # reply) =>
          /\ reply'.val.state = execs[IndexOf(reply'.arg)].state
          /\ execs' = execs

\* C19: every execution goes IDLE, RUNNING, then exactly one of COMPLETED
\* and ERROR; get_status returns the state the execution is in, so that
\* successive calls see that sequence; and once an execution is COMPLETED
\* or ERROR no start, stop or get_status changes its state.
C19_StateMachine == []C19_Inv /\ [][C19_Step]_vars

\* Execution 1 ended, a second one was started after that, and get_status
\* of execution 1 still returns the state it ended in.
C19_Witness ==
    /\ Len(execs) = 2
    /\ execs[1].state \in Terminal
    /\ execs[2].start_time_ns > execs[1].end_time_ns
    /\ IsStatus(reply)
    /\ reply.arg = execs[1].execution_id
    /\ reply.val.state = execs[1].state

----------------------------------------------------------------------------
\* reply is what a successful start_script returned.
IsStarted(r) == r.op = "start_script" /\ r.out = "return"

C20_Inv ==
    /\ \A i, j \in 1..Len(execs) :
          i # j => execs[i].execution_id # execs[j].execution_id
    /\ IsStatus(reply) => reply.val.execution_id = reply.arg

C20_Step ==
    /\ \A i \in 1..Len(execs) :
          /\ i <= Len(execs')
          /\ execs'[i].execution_id = execs[i].execution_id
    /\ Len(execs') > Len(execs) =>
          /\ IsStarted(reply')
          /\ reply'.val # <<>>
          /\ reply'.val = execs'[Len(execs')].execution_id
          /\ \A i \in 1..Len(execs) : execs[i].execution_id # reply'.val
    /\ (IsStarted(reply') /\ reply' # reply) => Len(execs') > Len(execs)

\* C20: a successful start_script returns the id of the execution it
\* created, which differs from the id of every execution started before,
\* of the same script or another; an execution keeps its id, and
\* get_status reports the id it was asked about.
C20_FreshExecutionId == []C20_Inv /\ [][C20_Step]_vars

\* The same script was started twice and the second start has returned.
C20_Witness ==
    /\ Len(execs) = 2
    /\ execs[1].script_id = execs[2].script_id
    /\ IsStarted(reply)
    /\ reply.val = execs[2].execution_id
    /\ reply.val # execs[1].execution_id

----------------------------------------------------------------------------
\* reply is the RuntimeError start_script raises for started=false.
IsStartFailed(r) ==
    /\ r.op = "start_script"
    /\ r.out = "RuntimeError"
    /\ r.val = Message("Start failed", "started=False")

\* The daemon has to refuse StartScript(script_id).
MustRefuse(script_id) ==
    \/ ~IsKnownScript(script_id)
    \/ Busy(Requires(ScriptOf(script_id).content))

C21_Inv ==
    \A i, j \in 1..Len(execs) :
       (i # j /\ execs[i].state = "RUNNING" /\ execs[j].state = "RUNNING") =>
          \/ Requires(ScriptOf(execs[i].script_id).content) = "none"
          \/ Requires(ScriptOf(execs[i].script_id).content)
                # Requires(ScriptOf(execs[j].script_id).content)

C21_Step ==
    (reply'.op = "start_script" /\ reply' # reply /\ MustRefuse(reply'.arg)) =>
       /\ reply'.out = "RuntimeError"
       /\ UNCHANGED <<scripts, execs, clock>>

\* C21: start_script of an unknown script, or of a script that needs a
\* resource a running execution holds, fails: the caller gets an error, no
\* execution is created and nothing in the daemon changes; so two running
\* executions never hold the same exclusive resource.
C21_StartRefused == []C21_Inv /\ [][C21_Step]_vars

\* A start was refused because a running execution holds the stage.
C21_Witness ==
    /\ IsStartFailed(reply)
    /\ IsKnownScript(reply.arg)
    /\ Requires(ScriptOf(reply.arg).content) = "stage"
    /\ \E i \in 1..Len(execs) : Holds(execs[i], "stage")

----------------------------------------------------------------------------
\* The execution with this id is RUNNING.
IsRunning(execution_id) ==
    /\ IsKnownExecution(execution_id)
    /\ execs[IndexOf(execution_id)].state = "RUNNING"

\* reply is the RuntimeError a control call raises for grpc.RpcError.
IsTransportError(r) ==
    /\ r.out = "RuntimeError"
    /\ r.val[1] \in {"gRPC error during upload", "gRPC error during start",
                     "gRPC error getting status", "gRPC error stopping script"}

C22_Step ==
    (reply'.op = "stop_script" /\ reply' # reply /\ ~IsRunning(reply'.arg)) =>
       /\ UNCHANGED <<scripts, execs, clock>>
       /\ reply'.out = "return" => reply'.val = FALSE
       /\ reply'.out = "RuntimeError" => IsTransportError(reply')

\* C22: stop_script on an execution that is not RUNNING (it never ran, or
\* it is COMPLETED or ERROR) returns False whenever the daemon answers,
\* does not raise for it, and leaves every execution's state, error message
\* and end_time_ns as they were, the first time and every time after.
C22_StopIdempotent == [][C22_Step]_vars

\* stop_script returned False for an execution that had ended, and its
\* record is the one the script's end left.
C22_Witness ==
    /\ reply.op = "stop_script"
    /\ reply.out = "return"
    /\ reply.val = FALSE
    /\ IsKnownExecution(reply.arg)
    /\ execs[IndexOf(reply.arg)].state \in Terminal
    /\ execs[IndexOf(reply.arg)].end_time_ns > 0

----------------------------------------------------------------------------
C23_Inv == IsStatus(reply) => IsKnownExecution(reply.arg)

C23_Step ==
    (reply'.op = "get_status" /\ reply' # reply
        /\ ~IsKnownExecution(reply'.arg)) =>
       /\ reply'.out = "RuntimeError"
       /\ UNCHANGED <<scripts, execs, clock>>

\* C23: get_status of an execution_id that no start_script returned raises
\* an error; a status record, in state IDLE or any other, is returned only
\* for the id of an execution that was started.
C23_UnknownIdIsError == []C23_Inv /\ [][C23_Step]_vars

\* With one execution started, get_status was asked about the id of a
\* second one, which no start has returned, and raised.
C23_Witness ==
    /\ Len(execs) = 1
    /\ reply.op = "get_status"
    /\ reply.out = "RuntimeError"
    /\ reply.arg = ExecutionId(2)

----------------------------------------------------------------------------
\* reply is what a successful upload_script returned.
IsUploaded(r) == r.op = "upload_script" /\ r.out = "return"

\* start_script(script_id) is being answered by the daemon.
StartAnswered(script_id) ==
    /\ reply'.op = "start_script"
    /\ reply'.arg = script_id
    /\ reply' # reply
    /\ ~IsTransportError(reply')

\* The start being answered succeeds with a non-empty execution_id.
StartSucceeds ==
    /\ IsStarted(reply')
    /\ reply'.val # <<>>
    /\ Len(execs') = Len(execs) + 1
    /\ execs'[Len(execs')].execution_id = reply'.val
    /\ execs'[Len(execs')].state = "RUNNING"

C24_UploadedId == IsUploaded(reply) => reply.val # <<>> /\ IsKnownScript(reply.val)

\* C24 as stated: every start_script of a script_id that upload_script
\* returned succeeds.
C24_StartAfterUpload ==
    /\ []C24_UploadedId
    /\ [][\A i \in 1..Len(scripts) :
             StartAnswered(scripts[i].script_id) => StartSucceeds]_vars

\* C24: the script_id upload_script returns is non-empty and known to the
\* daemon, and a later start_script of it that the daemon answers succeeds
\* with a non-empty execution_id whenever no running execution holds an
\* exclusive resource the script requires.
C24_StartAfterUploadIfFree ==
    /\ []C24_UploadedId
    /\ [][\A i \in 1..Len(scripts) :
             (/\ StartAnswered(scripts[i].script_id)
              /\ ~Busy(Requires(scripts[i].content))) => StartSucceeds]_vars

\* The script that moves the stage was started, ended, and was started a
\* second time with success.
C24_Witness ==
    /\ Len(execs) = 2
    /\ execs[1].script_id = execs[2].script_id
    /\ Requires(ScriptOf(execs[2].script_id).content) = "stage"
    /\ execs[1].state \in Terminal
    /\ IsStarted(reply)
    /\ reply.val = execs[2].execution_id

----------------------------------------------------------------------------
\* The call whose outcome is reply' got this response from the daemon.
UploadAnswered(response) ==
    /\ reply'.op = "upload_script"
    /\ reply' # reply
    /\ ~IsTransportError(reply')
    /\ response = UploadScript(reply'.arg, "experiment")

C25_UploadStep ==
    \A response \in {UploadScript(c, "experiment") : c \in Contents} :
       UploadAnswered(response) =>
          IF response.success
          THEN reply'.out = "return" /\ reply'.val = response.script_id
          ELSE /\ reply'.out = "RuntimeError"
               /\ reply'.val = Message("Upload failed", response.error_message)

C25_StartStep ==
    \A id \in ScriptIdArgs :
       StartAnswered(id) =>
          IF StartScript(id).started
          THEN reply'.out = "return" /\ reply'.val = StartScript(id).execution_id
          ELSE IsStartFailed(reply')

\* C25: upload_script returns response.script_id when the response has
\* success=true and otherwise raises an error that carries error_message;
\* start_script returns response.execution_id when started=true and
\* otherwise raises; an id is never returned from a failed response.
C25_SemanticFailureRaises == [][C25_UploadStep /\ C25_StartStep]_vars

\* upload_script of a script that does not parse raised with the daemon's
\* error message, and no script was stored.
C25_Witness ==
    /\ reply.op = "upload_script"
    /\ reply.out = "RuntimeError"
    /\ reply.val = Message("Upload failed", "parse error")
    /\ Malformed(reply.arg)
    /\ scripts = <<>>

----------------------------------------------------------------------------
\* The daemon's method each control call of DaqClient invokes.
RpcOf(op) ==
    CASE op = "upload_script" -> "UploadScript"
      [] op = "start_script" -> "StartScript"
      [] op = "get_status" -> "GetScriptStatus"
      [] op = "stop_script" -> "StopScript"

ControlOps == {"upload_script", "start_script", "get_status", "stop_script"}

\* C26: every upload_script, start_script, get_status and stop_script sends
\* one request to the daemon, the one for its own method and argument,
\* whether it returns or raises for a transport or a semantic failure; no
\* request is sent a second time.
C26_OneRequestPerCall ==
    reply.op \in ControlOps =>
       /\ Len(reply.requests) = 1
       /\ reply.requests[1][1] = RpcOf(reply.op)
       /\ reply.requests[1][2] = reply.arg

\* stop_script of a running execution met a transport failure: it raised
\* after one request and the execution is still running.
C26_Witness ==
    /\ reply.op = "stop_script"
    /\ IsTransportError(reply)
    /\ Len(reply.requests) = 1
    /\ IsRunning(reply.arg)

----------------------------------------------------------------------------
\* The latest get_status of main() returned COMPLETED with no error and an
\* end after the start.
ObservedCompleted ==
    /\ IsStatus(reply)
    /\ Some(reply.arg) = main.exec_id
    /\ reply.val.state = "COMPLETED"
    /\ reply.val.error = ""
    /\ reply.val.end_time > reply.val.start_time

\* The script of main() failed.
ScriptFailed == Len(execs) >= 1 /\ execs[1].state = "ERROR"

\* main() will call get_status once more before max_wait is over.
PollsAgain ==
    \/ main.pc = "poll" /\ main.waited < max_wait * SleepsPerSecond
    \/ main.pc = "sleep" /\ main.waited + 1 < max_wait * SleepsPerSecond

Interrupted == main.pc = "interrupted"

----------------------------------------------------------------------------
\* The measurement the generator of stream_measurements yielded last.
YieldedMeasurement == seen[GM].val[1]

\* Dict d is what the sample data_point has to be yielded as.
CarriesPayloadOf(d, data_point) ==
    /\ d.value # None <=> HasField(data_point, "scalar")
    /\ d.image # None <=> HasField(data_point, "image")
    /\ d.value # None => d.value = Some(data_point.scalar)
    /\ d.image # None => d.image = Some(data_point.image)
    /\ d.instrument = data_point.instrument
    /\ d.timestamp = data_point.timestamp_ns

\* C28: a measurement stream_measurements yields has 'value' and 'image'
\* never both set; of the sample the stream delivered for it, 'value' is
\* set exactly when that sample carries a scalar and 'image' exactly when
\* it carries an image, and a sample with neither is yielded with both
\* None.
C28_OnePayload ==
    seen[GM].out = "item" =>
       /\ ~(YieldedMeasurement.value # None /\ YieldedMeasurement.image # None)
       /\ received # None
       /\ received[1] = DataPoint(Instrument, gen[GM].pos,
                                    received[1].payload)
       /\ CarriesPayloadOf(YieldedMeasurement, received[1])

\* A sample with an image was yielded after one with a scalar or none.
C28_Witness ==
    /\ seen[GM].out = "item"
    /\ gen[GM].pos = 2
    /\ HasField(received[1], "image")
    /\ YieldedMeasurement.image # None
    /\ YieldedMeasurement.value = None

----------------------------------------------------------------------------
\* Each control call can be made now and runs to its end in one step.
CanCall ==
    /\ Len(scripts) < MaxScripts =>
          ENABLED (DaqClient_upload_script(ExampleScript, "experiment", "ok")
                      /\ UNCHANGED main)
    /\ Len(execs) < MaxExecs =>
          ENABLED (DaqClient_start_script(ScriptId(1), "ok") /\ UNCHANGED main)
    /\ ENABLED (DaqClient_get_status(ExecutionId(1), "ok") /\ UNCHANGED main)
    /\ ENABLED (DaqClient_stop_script(ExecutionId(1), "ok", "RUNNING")
                   /\ UNCHANGED main)

\* A subscription is open, with its consumer suspended in __anext__ or not.
IsOpen(s) == active[s] /\ up[s] # None

\* The generator of stream_status is between two of its events.
IsStreaming(g) == gen[g].state = "suspended"

C29_Inv == (IsOpen(F) \/ IsStreaming(GS)) => CanCall

C29_Step ==
    (reply' # reply \/ scripts' # scripts \/ execs' # execs) =>
       UNCHANGED <<config, wrapVars, genVars>>

\* C29: while a subscription is open, also while its consumer is suspended
\* awaiting the next event, upload_script, start_script, get_status and
\* stop_script can be called and complete without any stream event, and no
\* control call changes anything of a subscription.
C29_ControlNotLocked == []C29_Inv /\ [][C29_Step]_vars

\* The consumer of an open FrameStream is suspended awaiting its second
\* frame, stream_status has yielded an event, and the latest control call,
\* a stop_script of the running script, returned True.
C29_Witness ==
    /\ IsOpen(F)
    /\ awaiting[F] = 1
    /\ count[F] = 1
    /\ IsStreaming(GS)
    /\ reply.op = "stop_script"
    /\ reply.out = "return"
    /\ reply.val = TRUE

----------------------------------------------------------------------------
\* The consumer of s is suspended in __anext__, awaiting the upstream.
IsSuspended(s) == awaiting[s] > 0

\* C30: with a FrameStream and a ParameterSubscription open on one client,
\* every __anext__ of the ParameterSubscription that is awaiting its
\* upstream gets the upstream's answer, whether or not the consumer of the
\* FrameStream is suspended, even forever, awaiting a frame.
C30_SiblingDelivers == IsSuspended(P) ~> ~IsSuspended(P)

\* The ParameterSubscription has delivered every event of its upstream
\* while the consumer of the FrameStream, which got no frame, is suspended.
C30_Witness ==
    /\ IsSuspended(F)
    /\ count[F] = 0
    /\ count[P] = MaxEvents
    /\ ret[P].out = "event"

----------------------------------------------------------------------------
(* Subscriptions of a DaqClient and the connection they share.             *)

\* The stream of generator g was cut off by a connection failure or by a
\* close of the channel, or has ended with a stream error.
IsCutOff(g) == gen[g].rpc \in {"lost", "failed"}

\* C31: once the connection under an open subscription failed or its
\* channel was closed, the subscription delivers no further event: as long
\* as the generator is not replaced by a new call of the streaming method,
\* it pulls nothing more, and the first next() on it ends it with
\* StopIteration.
C31_CutOffTerminates ==
    [][\A g \in Gens :
          (IsCutOff(g) /\ gen'[g].state # "created")
              => /\ gen'[g].pos = gen[g].pos
                 /\ (seen'[g] # seen[g]
                        => /\ seen'[g].out = "StopIteration"
                           /\ gen'[g].state = "done")]_vars

\* The channel was closed under two subscriptions that had both delivered
\* events; the status subscription has ended on its next() and the
\* measurement subscription was not read since.
C31_Witness ==
    /\ channel = "closed"
    /\ gen[GS].pos >= 1 /\ gen[GS].state = "done" /\ gen[GS].rpc = "failed"
    /\ seen[GS].out = "StopIteration"
    /\ gen[GM].pos >= 1 /\ gen[GM].rpc = "lost"
    /\ seen[GM].out = "item"

----------------------------------------------------------------------------
(* C32: only max_frames = None is unlimited: a FrameStream with an integer *)
(* cap, 0 included, receives and returns at most that many frames, so with *)
(* max_frames = 0 no frame is delivered and __anext__ stops at the cap.    *)
C32_IntegerCapStops ==
    (F \in objs /\ max_frames # None) =>
        /\ count[F] <= max_frames[1]
        /\ Returned(F) <= max_frames[1]
        /\ (ret[F].op = "anext" /\ ret[F].out = "event") => max_frames[1] > 0

----------------------------------------------------------------------------
(* Runs that construct DataPoints.                                         *)

InitPoint == Constructed(0) /\ NoDecoding /\ NoControl

NextPoint ==
    \/ \E ts \in Timestamps, md \in MetadataArgs : DataPoint_new(ts, md)

SpecPoint == InitPoint /\ [][NextPoint]_vars

----------------------------------------------------------------------------
(* DataPoint construction.                                                 *)

\* The object holds a value of one of the types somewhere inside.
RECURSIVE ContainsType(_, _)
ContainsType(obj, types) ==
    \/ obj.type \in types
    \/ \E i \in 1..Len(obj.items) : ContainsType(obj.items[i][2], types)

\* The arguments of the latest DataPoint(...) call were malformed.
IsMalformed ==
    \/ made.timestamp.tzinfo = None
    \/ ContainsType(made.given, {t.type : t \in NotJson})

\* C33: a DataPoint(...) call with a timezone-naive timestamp, or with
\* metadata holding a set or an instrument object at any depth, raises
\* TypeError and creates no DataPoint.
C33_MalformedRejected ==
    (made.out # "none" /\ IsMalformed)
        => (made.out = "TypeError" /\ made.obj = None)

\* A call was rejected for a set two dicts deep under an aware timestamp.
C33_Witness ==
    /\ made.out = "TypeError"
    /\ made.timestamp.tzinfo # None
    /\ made.given = PyDict(<< <<"detector",
                               PyDict(<< <<"detector", PySet>> >>)>> >>)

----------------------------------------------------------------------------
(* The counters of FrameStream and ParameterSubscription.                  *)

\* The wrappers with a counter and a callback.
Counting == {F, P} \cap objs

(* C35, as stated: frame_count and change_count equal the number of events *)
(* __anext__ returned since the latest __aenter__, also when the callback  *)
(* raised for some event.                                                  *)
C35_CountEqualsReturned ==
    \A s \in Counting : count[s] = Returned(s)

(* C35, amended: frame_count and change_count equal the number of events   *)
(* received from the upstream since the latest __aenter__: the events      *)
(* returned plus those whose callback raised, and so the events returned   *)
(* when no callback raised.                                                *)
C35_CountEqualsReceived ==
    \A s \in Counting :
        /\ count[s] = Returned(s) + Raised(s)
        /\ (IsEntered(s) /\ awaiting[s] = 0) => count[s] = up[s][1].pos
        /\ (~HasCallback(s) => count[s] = Returned(s))

\* A callback raised for one event and a later event was returned: the
\* counter shows both.
C35_Witness ==
    \E s \in Counting :
        /\ Raised(s) = 1
        /\ Returned(s) = 1
        /\ count[s] = 2

----------------------------------------------------------------------------
(* Runs in which two consumer tasks share one wrapper: while one of them   *)
(* is suspended in __anext__, the other can call any method of the         *)
(* wrapper.                                                                *)

InitTasks == ConstructedFor(1, 2) /\ NoDecoding /\ NoControl

SpecTasks == InitTasks /\ [][Next]_vars

----------------------------------------------------------------------------
(* C36: with max_frames = N, a FrameStream shared by several consumer      *)
(* tasks never receives more than N frames: frame_count <= max_frames in   *)
(* every reachable state.                                                  *)
C36_CapUnderConcurrency ==
    (F \in objs /\ max_frames # None /\ max_frames[1] >= 1)
        => count[F] <= max_frames[1]

----------------------------------------------------------------------------
(* C37: when __aexit__ runs while another task is suspended in __anext__   *)
(* of the same wrapper, delivery stops at the close: until the next        *)
(* __aenter__ the pending __anext__ returns no event and the counter is    *)
(* not incremented.                                                        *)
C37_CloseStopsPending ==
    [][\A s \in Subs :
          (IsClosed(s) /\ IsClosed(s)')
              => /\ count'[s] = count[s]
                 /\ trace'[s] = trace[s]
                 /\ ret'[s].out # "event"]_vars

----------------------------------------------------------------------------
(* __aenter__ when the client's stream method raises: _active and the      *)
(* counter were set before the call, _iterator is not assigned.            *)

FrameStream_aenter_raises ==
    /\ F \in objs
    /\ awaiting[F] < tasks
    /\ active' = [active EXCEPT ![F] = TRUE]
    /\ count' = [count EXCEPT ![F] = 0]
    /\ ret' = [ret EXCEPT ![F] = Ret("aenter", "error", None, "open")]
    /\ trace' = [trace EXCEPT ![F] = <<>>]
    /\ phase' = [phase EXCEPT ![F] = "unopened"]
    /\ calls' = [calls EXCEPT ![F] =
           <<ClientCall("stream_frames",
                        stream_frames(F, FrameDevice, TRUE).args)>>]
    /\ UNCHANGED <<config, iterator, up, prior, awaiting, others>>

ParameterSubscription_aenter_raises ==
    /\ P \in objs
    /\ awaiting[P] < tasks
    /\ active' = [active EXCEPT ![P] = TRUE]
    /\ count' = [count EXCEPT ![P] = 0]
    /\ ret' = [ret EXCEPT ![P] = Ret("aenter", "error", None, "open")]
    /\ trace' = [trace EXCEPT ![P] = <<>>]
    /\ phase' = [phase EXCEPT ![P] = "unopened"]
    /\ calls' = [calls EXCEPT ![P] =
           <<ClientCall("stream_parameter_changes",
                        stream_parameter_changes(P, device_id,
                                                 parameter_names).args)>>]
    /\ UNCHANGED <<config, iterator, up, prior, awaiting, others>>

DeviceStateStream_aenter_raises ==
    /\ D \in objs
    /\ awaiting[D] < tasks
    /\ active' = [active EXCEPT ![D] = TRUE]
    /\ count' = [count EXCEPT ![D] = 0]
    /\ ret' = [ret EXCEPT ![D] = Ret("aenter", "error", None, "open")]
    /\ trace' = [trace EXCEPT ![D] = <<>>]
    /\ phase' = [phase EXCEPT ![D] = "unopened"]
    /\ calls' = [calls EXCEPT ![D] =
           <<ClientCall("stream_device_state",
                        stream_device_state(D, Some(StateDevices), max_rate_hz,
                                            include_snapshot).args)>>]
    /\ UNCHANGED <<config, iterator, up, prior, awaiting, others>>

\* Runs of one wrapper over a client whose stream methods can raise.
NextEnter ==
    \/ Next
    \/ FrameStream_aenter_raises
    \/ ParameterSubscription_aenter_raises
    \/ DeviceStateStream_aenter_raises

SpecEnter == Init /\ [][NextEnter]_vars

(* C38: a wrapper whose is_active is True holds an upstream iterator, and  *)
(* that iterator was opened by the latest __aenter__ call; so after an     *)
(* __aenter__ in which opening the upstream raised, is_active is False.    *)
C38_ActiveHoldsIterator ==
    \A s \in Subs :
        active[s] => /\ iterator[s] # None
                     /\ up[s] # None
                     /\ IsEntered(s)

----------------------------------------------------------------------------
(* C39: a wrapper opens no stream when it is constructed; it pulls from    *)
(* a stream only to answer a pending __anext__ call, one event for one     *)
(* call, and hands the event over in that call (returns it, or passes it   *)
(* to the callback that raised), so that no event it pulled is kept back;  *)
(* and __anext__ before the first __aenter__ raises StopAsyncIteration and *)
(* touches nothing.  A read that was pending when __aenter__ opened        *)
(* another stream is answered by the stream it was made on.                *)
C39_LazyInv ==
    \A s \in Subs :
        /\ phase[s] \in Unentered =>
              /\ up[s] = None /\ iterator[s] = None /\ prior[s] = None
              /\ count[s] = 0 /\ trace[s] = <<>>
        /\ up[s] # None => up[s][1].pos <= Returned(s) + Raised(s)
        /\ Stale(s) <= awaiting[s]

C39_LazyStep ==
    \A s \in Subs :
        /\ up'[s] # up[s] =>
              \/ /\ Aenter(s)
                 /\ up'[s][1].pos = 0
              \/ /\ awaiting[s] > Stale(s)
                 /\ awaiting'[s] = awaiting[s] - 1
                 /\ up'[s][1].pos \in {up[s][1].pos, up[s][1].pos + 1}
                 /\ up'[s][1].pos = up[s][1].pos + 1 =>
                       (Returned(s) + Raised(s))' = Returned(s) + Raised(s) + 1
        /\ prior'[s] # prior[s] =>
              \/ /\ Aenter(s)
                 /\ awaiting[s] > 0
                 /\ prior'[s] = up[s]
              \/ /\ awaiting'[s] = awaiting[s] - 1
                 /\ prior'[s] = None
                 /\ up'[s] = up[s]
        /\ (Returned(s) + Raised(s))' > Returned(s) + Raised(s) =>
              /\ awaiting'[s] = awaiting[s] - 1
              /\ (Returned(s) + Raised(s))' = Returned(s) + Raised(s) + 1
        /\ awaiting'[s] > awaiting[s] =>
              /\ Anext(s)
              /\ awaiting'[s] = awaiting[s] + 1
              /\ calls'[s] = <<IteratorCall>>
        /\ (phase[s] \in Unentered /\ Anext(s)) =>
              /\ StopRaised(s, "inactive")'
              /\ UNCHANGED <<up, prior, awaiting, count, trace, active,
                             iterator>>

\* C39: the wrappers are lazy in every state and every step.
C39_PullsOnlyOnDemand == []C39_LazyInv /\ [][C39_LazyStep]_vars

\* Two __anext__ calls were answered with the two events pulled, and none
\* is pending.
C39_Witness ==
    \E s \in Subs :
        /\ IsEntered(s)
        /\ awaiting[s] = 0
        /\ up[s][1].pos = 2
        /\ Returned(s) = 2

====
